---- MODULE Spec2Model ----
(***************************************************************************)
(* The game reducer of src/src/components/Simulation.tsx (gameReducer) as  *)
(* a state machine: one action per reducer action, each applied once to    *)
(* the World held by the component.                                        *)
(*                                                                         *)
(* Number representation (TLA+ has no floats):                             *)
(*   lengths and velocities   integers, 1/100 of a world unit              *)
(*   resources                integers, 1/10 of a resource point           *)
(*   angles                   integers, 1/1000 rad                         *)
(*   unit vectors, sin, cos   integers, 1/1000                             *)
(*   shockwave life           integers, 1/100                              *)
(* Products are rounded to nearest (RDiv).                                 *)
(*                                                                         *)
(* The World record keeps the fields the modelled reducer cases read or    *)
(* write; phages, inventory and cosmic events are left out.                 *)
(***************************************************************************)
EXTENDS Integers, Naturals, Sequences, FiniteSets, TLC

VARIABLES world, storage, err, last, budget, dimensions, svc

vars == <<world, storage, err, last, budget, dimensions, svc>>

NULL == "null"

\* ---------------------------------------------------------------- bounds
MaxTicks == 32      \* unpaused TICKs dispatched in one behaviour
MaxWait == 2        \* TICKs that pass while the game waits for the user
MaxEvents == 1      \* interruptions of a game: pause, save, load, restart, level, purchase
EventTicks == 0     \* TICKs after which stray clicks and interruptions are no longer explored
TailTicks == 1      \* TICKs followed after an interruption
OrbTicks == 1       \* leading TICKs on which a star may emit an energy orb

\* ------------------------------------------------------------ arithmetic
Abs(a) == IF a < 0 THEN -a ELSE a
Sign(a) == IF a < 0 THEN -1 ELSE IF a > 0 THEN 1 ELSE 0
Min2(a, b) == IF a < b THEN a ELSE b
Max2(a, b) == IF a > b THEN a ELSE b

\* a / b rounded to nearest, half away from zero (b > 0)
RDiv(a, b) == IF a >= 0 THEN (2 * a + b) \div (2 * b)
              ELSE -((2 * (-a) + b) \div (2 * b))

RECURSIVE SqrtIter(_, _)
SqrtIter(n, x) ==
  LET y == (x + n \div x) \div 2
  IN IF y >= x THEN x ELSE SqrtIter(n, y)

\* Math.sqrt, rounded to nearest
Sqrt(n) ==
  IF n <= 0 THEN 0
  ELSE LET x0 == IF n < 1024 THEN 32 ELSE IF n < 65536 THEN 256
                 ELSE IF n < 4194304 THEN 2048 ELSE IF n < 268435456 THEN 16384
                 ELSE 46341
           r == SqrtIter(n, x0)
       IN IF n - r * r > r THEN r + 1 ELSE r

\* Math.hypot; large arguments are scaled down so squares fit in 32 bits
Hypot(dx, dy) ==
  IF dx = 0 THEN Abs(dy)
  ELSE IF dy = 0 THEN Abs(dx)
  ELSE IF Max2(Abs(dx), Abs(dy)) > 30000
       THEN 10 * Sqrt(RDiv(dx, 10) * RDiv(dx, 10) + RDiv(dy, 10) * RDiv(dy, 10))
       ELSE Sqrt(dx * dx + dy * dy)

\* (Math.cos(Math.atan2(dy, dx)), Math.sin(Math.atan2(dy, dx))), in 1/1000
UnitVec(dx, dy) ==
  IF dx = 0 /\ dy = 0 THEN [c |-> 1000, s |-> 0]
  ELSE IF dx = 0 THEN [c |-> 0, s |-> 1000 * Sign(dy)]
  ELSE IF dy = 0 THEN [c |-> 1000 * Sign(dx), s |-> 0]
  ELSE LET d == Hypot(dx, dy)
       IN [c |-> RDiv(dx * 1000, d), s |-> RDiv(dy * 1000, d)]

PI == 3142          \* Math.PI in 1/1000 rad
HALF_PI == (PI + 1) \div 2

\* Math.sin on [0, PI] (Bhaskara's rational approximation, exact at 0, PI/2, PI)
SinHalf(x) ==
  LET p == x * (PI - x)
  IN RDiv(16 * p, RDiv(5 * PI * PI - 4 * p, 1000))

\* Math.sin, Math.cos in 1/1000 for an angle in 1/1000 rad
Sin(a) ==
  LET m == a % (2 * PI)
  IN IF m <= PI THEN SinHalf(m) ELSE -SinHalf(m - PI)

Cos(a) == Sin(a + HALF_PI)

\* Math.atan on [0, 1] (argument z/1000), result in 1/1000 rad
AtanUnit(z) == RDiv(z * 785 + RDiv(273 * z * (1000 - z), 1000), 1000)

\* Math.atan2(dy, dx) in 1/1000 rad, in (-PI, PI]
Atan2(dy, dx) ==
  IF dx = 0 /\ dy = 0 THEN 0
  ELSE IF dx = 0 THEN HALF_PI * Sign(dy)
  ELSE IF dy = 0 THEN (IF dx > 0 THEN 0 ELSE PI)
  ELSE LET ax == Abs(dx)
           ay == Abs(dy)
           base == IF ay <= ax THEN AtanUnit(RDiv(ay * 1000, ax))
                   ELSE HALF_PI - AtanUnit(RDiv(ax * 1000, ay))
           q == IF dx > 0 THEN base ELSE PI - base
       IN IF dy > 0 THEN q ELSE -q

\* ------------------------------------------------------- program constants
BASE_KNOWLEDGE_RATE == 1        \* 0.1 resource points
STAR_ENERGY_RATE == 5           \* 0.5 resource points
AIM_ROTATION_SPEED == 50        \* 0.05 rad
POWER_OSCILLATION_SPEED == 15   \* 1.5 rad per second
MAX_LAUNCH_POWER == 40          \* world units per tick at power 100
PROJECTILE_FRICTION == 99       \* 0.99
REFORM_DURATION == 80
ORB_COLLECTION_LEEWAY == 2500   \* 25 world units
AIM_ASSIST_ANGLE == 200         \* 0.2 rad
HARMONY_THRESHOLD == 50
REFORM_SPEED == 80              \* 0.8 world units per tick
HIT_COOLDOWN == 20
DUST_COUNT == 80                 \* particles made by START_GAME
DUST_FIELD == 2000              \* width and height they are spread over
DUST_REWARD == 5                \* 0.5 knowledge
DUST_LEEWAY == 1000             \* 10 world units
SUPERNOVA_COOLDOWN == 600
SUPERNOVA_ENERGY == 10000       \* 1000 resource points
ERUPTION_ORBS == 15
ERUPTION_ORB_VALUE == 500       \* 50 resource points
ASSIMILATION_BIOMASS == 2000    \* 200 resource points

PlanetLike == {"rocky_planet", "life_seed", "sentient_colony"}

\* ------------------------------------------------------------- data model
Node(id, type, x, y, radius, img, maxI, curI, cd) ==
  [id |-> id, type |-> type, x |-> x, y |-> y, vx |-> 0, vy |-> 0,
   radius |-> radius, imageUrl |-> img,
   maxIntegrity |-> maxI, currentIntegrity |-> curI, integrityCooldown |-> cd]

initialProjectionState ==
  [playerState |-> "IDLE", aimAngle |-> 0, power |-> 0, reformTimer |-> 0]

\* i-th asteroid of the ring of radius 350: (cos, sin)(i / 8 * 2 PI) * 350
RingX == <<35000, 24749, 0, -24749, -35000, -24749, 0, 24749>>
RingY == <<0, 24749, 35000, 24749, 0, -24749, -35000, -24749>>
RingId == <<"asteroid_ring_0", "asteroid_ring_1", "asteroid_ring_2", "asteroid_ring_3",
            "asteroid_ring_4", "asteroid_ring_5", "asteroid_ring_6", "asteroid_ring_7">>

createInitialNodes ==
  << Node("player_consciousness", "player_consciousness", 0, 30000, 2000, "img_player", 100, 100, 0),
     Node("tutorial_planet", "rocky_planet", 0, -15000, 2500, "img_rocky", 2, 2, 0),
     Node("central_star", "star", 0, 0, 4000, "img_star", 2, 2, 0) >>
  \o [i \in 1..8 |-> Node(RingId[i], "asteroid", RingX[i], RingY[i], 1500, NULL, 1000, 1000, 0)]
  \o << Node("planet_left", "rocky_planet", -25000, -5000, 2000, "img_rocky", 2, 2, 0),
        Node("planet_right", "rocky_planet", 25000, -5000, 2200, "img_rocky", 2, 2, 0) >>

\* turnHitIds is a Set in memory (isSet) and a plain object once it has been
\* through JSON.stringify / JSON.parse
EmptyHitSet == [isSet |-> TRUE, ids |-> {}]

\* Math.random() of the k-th use for particle i, in 1/1000, in the call whose
\* draws are named by seed (the particles are laid out deterministically per seed)
Draw(seed, i, k) ==
  IF k = 1 THEN (500 + (i - 1) * 197 + seed * 131) % 1000
  ELSE IF k = 2 THEN (575 + (i - 1) * 389 + seed * 71) % 1000
  ELSE (i * 7 * k + seed * 3 + 400) % 1000

\* createSpaceDust(count, width, height); the id `dust_${Date.now()}_${i}` is
\* the pair of the call's seed and i
createSpaceDust(count, width, height, seed) ==
  [i \in 1..count |->
     [id |-> <<seed, i>>,
      x |-> RDiv((Draw(seed, i, 1) - 500) * width * 2, 10),
      y |-> RDiv((Draw(seed, i, 2) - 500) * height * 2, 10),
      vx |-> RDiv((Draw(seed, i, 3) - 500) * 2, 100),
      vy |-> RDiv((Draw(seed, i, 4) - 500) * 2, 100),
      size |-> RDiv(Draw(seed, i, 5) * 2, 10) + 100]]

\* A lore text is named by the node it was written for and the request that
\* asked for it; NoText is the empty string
NoText == [nodeId |-> NULL, k |-> 0]

initialState ==
  [gameStarted |-> FALSE, isPaused |-> FALSE,
   energy |-> 500, knowledge |-> 100, biomass |-> 0, karma |-> 0,
   unlockedUpgrades |-> {}, tutorialStep |-> 0,
   zoomLevel |-> 0, levelTransitionState |-> "none",
   nodes |-> createInitialNodes, satellites |-> <<>>,
   notifications |-> <<>>,
   projection |-> initialProjectionState,
   turnHitIds |-> EmptyHitSet,
   energyOrbs |-> <<>>, projectileTrailParticles |-> <<>>, spaceDust |-> <<>>,
   shockwaves |-> <<>>, floatingTexts |-> <<>>, visualEffects |-> <<>>,
   selectedNodeId |-> NULL, aimAssistTargetId |-> NULL,
   screenShake |-> [intensity |-> 0, duration |-> 0],
   settings |-> [aimAssist |-> TRUE],
   loreState |-> [nodeId |-> NULL, text |-> NoText, isLoading |-> FALSE]]

\* ------------------------------------------------------------ list helpers
Range(f) == {f[i] : i \in DOMAIN f}
Map(f, Op(_)) == [i \in DOMAIN f |-> Op(f[i])]
Filter(f, Test(_)) == SelectSeq(f, Test)

\* Array.prototype.find by predicate: index of the first match, 0 if none
FindIndex(f, Test(_)) ==
  LET hits == {i \in DOMAIN f : Test(f[i])}
  IN IF hits = {} THEN 0 ELSE CHOOSE i \in hits : \A j \in hits : i <= j

IsPlayer(n) == n.type = "player_consciousness"
PlayerIndex(nodes) == FindIndex(nodes, IsPlayer)
NodeIndexById(nodes, id) == FindIndex(nodes, LAMBDA n : n.id = id)

\* ------------------------------------------------------------------ TICK
\* Every stage maps a working record t to the next one:
\*   t.ns     nextState (the shallow copy of the World being built)
\*   t.mn     mutableNodes
\*   t.nft, t.nsw, t.nve   newFloatingTexts, newShockwaves, newVisualEffects
\*   t.threw  the reducer has thrown (a TypeError)
\*   t.hit    id of the node whose collision handler ran in this tick
\*   t.kind   which outcome it took
\*   t.walled the player bounced off the boundary
\*   t.collected, t.gained   number and summed value of the orbs collected
\*   t.popped  number of dust particles consumed
\*   t.pushed  the energyOrbs array of the World given, after the pushes to it
worldRadius(s, in) == RDiv(Min2(in.width, in.height) * 150, s.zoomLevel + 1)

\* angular distance as the aim-assist scan computes it
AngleDiff(newAngle, angleToNode) ==
  LET d == Abs(newAngle - angleToNode)
  IN IF d > PI THEN 2 * PI - d ELSE d

AssistHit(mn, pi, newAngle, i) ==
  /\ mn[i].id # mn[pi].id
  /\ AngleDiff(newAngle, Atan2(mn[i].y - mn[pi].y, mn[i].x - mn[pi].x)) < AIM_ASSIST_ANGLE

\* index of the first node the aim-assist scan accepts, 0 if none
AssistIndex(mn, pi, newAngle) ==
  LET hits == {i \in DOMAIN mn : AssistHit(mn, pi, newAngle, i)}
  IN IF hits = {} THEN 0 ELSE CHOOSE i \in hits : \A j \in hits : i <= j

\* variant of MagneticSnap: the aim is left where the sweep put it
MagneticSnap_loose(newAngle, angleToNode) == newAngle

MagneticSnap(newAngle, angleToNode) ==
  angleToNode + RDiv(AngleDiff(newAngle, angleToNode), 10)
                * (IF newAngle > angleToNode THEN -1 ELSE 1)

\* variant of the AIMING_DIRECTION case: the scan runs only when nothing is selected
TickAimingDirection_unselected(t) ==
  LET mn == t.mn
      pi == PlayerIndex(mn)
      selectedId == t.ns.selectedNodeId
      swept == t.ns.projection.aimAngle + AIM_ROTATION_SPEED
      ti == IF selectedId # NULL THEN NodeIndexById(mn, selectedId) ELSE 0
      ai == IF selectedId = NULL /\ t.ns.settings.aimAssist
            THEN AssistIndex(mn, pi, swept) ELSE 0
      potentialTarget == IF ti # 0 THEN selectedId
                         ELSE IF ai # 0 THEN mn[ai].id ELSE NULL
      newAngle == IF ti # 0 THEN Atan2(mn[ti].y - mn[pi].y, mn[ti].x - mn[pi].x)
                  ELSE IF ai # 0
                       THEN MagneticSnap(swept, Atan2(mn[ai].y - mn[pi].y, mn[ai].x - mn[pi].x))
                       ELSE swept
  IN [t EXCEPT !.ns.aimAssistTargetId = potentialTarget,
               !.ns.projection.aimAngle = newAngle]

\* case 'AIMING_DIRECTION' of the TICK
TickAimingDirection(t) ==
  LET mn == t.mn
      pi == PlayerIndex(mn)
      selectedId == t.ns.selectedNodeId
      swept == t.ns.projection.aimAngle + AIM_ROTATION_SPEED
      ti == IF selectedId # NULL THEN NodeIndexById(mn, selectedId) ELSE 0
      ai == IF ti = 0 /\ t.ns.settings.aimAssist THEN AssistIndex(mn, pi, swept) ELSE 0
      potentialTarget == IF ti # 0 THEN selectedId
                         ELSE IF ai # 0 THEN mn[ai].id ELSE NULL
      newAngle == IF ti # 0 THEN Atan2(mn[ti].y - mn[pi].y, mn[ti].x - mn[pi].x)
                  ELSE IF ai # 0
                       THEN MagneticSnap(swept, Atan2(mn[ai].y - mn[pi].y, mn[ai].x - mn[pi].x))
                       ELSE swept
  IN [t EXCEPT !.ns.aimAssistTargetId = potentialTarget,
               !.ns.projection.aimAngle = newAngle]

\* variant of the AIMING_POWER case: the oscillation is not lifted above zero
TickAimingPower_unlifted(t, in) ==
  [t EXCEPT !.ns.projection.power =
     RDiv(Sin(RDiv(in.now * POWER_OSCILLATION_SPEED, 10)) * 50, 1000)]

\* case 'AIMING_POWER' of the TICK: (sin(Date.now() / (1000 / 1.5)) + 1) * 50;
\* in.now is Date.now() in ms
TickAimingPower(t, in) ==
  [t EXCEPT !.ns.projection.power =
     RDiv((Sin(RDiv(in.now * POWER_OSCILLATION_SPEED, 10)) + 1000) * 50, 1000)]

Overlaps(p, n) == Hypot(p.x - n.x, p.y - n.y) < p.radius + n.radius

\* the node at which the collision loop stops: the first one, in registry
\* order, that is not the player and overlaps it (0 if none)
FirstOverlap(mn, pi) ==
  LET hits == {i \in DOMAIN mn : mn[i].id # mn[pi].id /\ Overlaps(mn[pi], mn[i])}
  IN IF hits = {} THEN 0 ELSE CHOOSE i \in hits : \A j \in hits : i <= j

BounceFactor(type) ==
  IF type = "star" THEN 110 ELSE IF type = "asteroid" THEN 130 ELSE 85

\* velocity after the bounce off node n: along the line from n to the player
Bounce(p, n) ==
  LET u == UnitVec(p.x - n.x, p.y - n.y)
      sb == RDiv(Hypot(p.vx, p.vy) * BounceFactor(n.type), 100)
  IN [vx |-> RDiv(u.c * sb, 1000), vy |-> RDiv(u.s * sb, 1000)]

FloatingText(x, y, text, life, vy) ==
  [x |-> x, y |-> y, text |-> text, life |-> life, vy |-> vy]
Shockwave(x, y, maxRadius) == [x |-> x, y |-> y, maxRadius |-> maxRadius, life |-> 0]
EruptionOrb(n) == [x |-> n.x, y |-> n.y, radius |-> 800, value |-> ERUPTION_ORB_VALUE]

\* variant of Supernova: the star is restored to one point above its maximum
Supernova_overfull(t, pi, i) ==
  [t EXCEPT
     !.mn[pi].vx = RDiv(@ * 150, 100), !.mn[pi].vy = RDiv(@ * 150, 100),
     !.mn[i].currentIntegrity = t.mn[i].maxIntegrity + 1,
     !.mn[i].integrityCooldown = SUPERNOVA_COOLDOWN,
     !.ns.energy = @ + SUPERNOVA_ENERGY,
     !.ns.energyOrbs = @ \o [k \in 1..ERUPTION_ORBS |-> EruptionOrb(t.mn[i])],
     !.kind = "supernova"]

\* variant of Supernova: no early return, the standard reward is paid as well
Supernova_fallthrough(t, pi, i) ==
  [t EXCEPT
     !.mn[pi].vx = RDiv(@ * 150, 100), !.mn[pi].vy = RDiv(@ * 150, 100),
     !.mn[i].currentIntegrity = t.mn[i].maxIntegrity,
     !.mn[i].integrityCooldown = SUPERNOVA_COOLDOWN,
     !.ns.energy = @ + SUPERNOVA_ENERGY + 1000,
     !.ns.turnHitIds.ids = @ \cup {t.mn[i].id},
     !.ns.energyOrbs = @ \o [k \in 1..ERUPTION_ORBS |-> EruptionOrb(t.mn[i])],
     !.kind = "supernova"]

\* Solar Super-Charge (Supernova) of the star at index i
Supernova(t, pi, i) ==
  [t EXCEPT
     !.mn[pi].vx = RDiv(@ * 150, 100), !.mn[pi].vy = RDiv(@ * 150, 100),
     !.mn[i].currentIntegrity = t.mn[i].maxIntegrity,
     !.mn[i].integrityCooldown = SUPERNOVA_COOLDOWN,
     !.ns.energy = @ + SUPERNOVA_ENERGY,
     !.nft = Append(@, FloatingText(t.mn[i].x, t.mn[i].y - 4000, "SUPERNOVA!", 80, -100)),
     !.ns.screenShake = [intensity |-> 30, duration |-> 30],
     !.nsw = Append(@, Shockwave(t.mn[i].x, t.mn[i].y, 50000)),
     !.ns.notifications = Append(@, "SOLAR SUPER-CHARGE!"),
     !.ns.energyOrbs = @ \o [k \in 1..ERUPTION_ORBS |-> EruptionOrb(t.mn[i])],
     !.kind = "supernova"]

\* variant of Satellite: the orbit is computed from the count after the push
Satellite_after_push(n, count) ==
  [id |-> n.id, type |-> n.type, imageUrl |-> n.imageUrl,
   orbitRadius |-> 60 + (count + 1) * 20]

Satellite(n, count) ==
  [id |-> n.id, type |-> n.type, imageUrl |-> n.imageUrl,
   orbitRadius |-> 60 + count * 20]

\* variant of Capture: the node becomes a satellite and stays in the registry
Capture_kept(t, n) ==
  [t EXCEPT
     !.ns.satellites = Append(@, Satellite(n, Len(t.ns.satellites))),
     !.ns.biomass = @ + ASSIMILATION_BIOMASS,
     !.kind = "assimilation"]

\* node n leaves nextState.nodes and mutableNodes and becomes a satellite
Capture(t, n) ==
  [t EXCEPT
     !.ns.nodes = Filter(@, LAMBDA m : m.id # n.id),
     !.mn = Filter(@, LAMBDA m : m.id # n.id),
     !.ns.satellites = Append(@, Satellite(n, Len(t.ns.satellites))),
     !.ns.biomass = @ + ASSIMILATION_BIOMASS,
     !.nft = Append(@, FloatingText(n.x, n.y - 4000, "ASSIMILATED", 60, -100)),
     !.ns.screenShake = [intensity |-> 15, duration |-> 15],
     !.nsw = Append(@, Shockwave(n.x, n.y, 15000)),
     !.kind = "assimilation"]

\* Planet Assimilation of the node at index i
Assimilation(t, pi, i) ==
  Capture([t EXCEPT !.mn[pi].vx = RDiv(@ * 60, 100), !.mn[pi].vy = RDiv(@ * 60, 100)],
          t.mn[i])

HitReward(type, isCombo) ==
  IF type = "star" THEN (IF isCombo THEN 2000 ELSE 1000)
  ELSE IF type = "asteroid" THEN (IF isCombo THEN 200 ELSE 100)
  ELSE (IF isCombo THEN 1000 ELSE 500)

RewardText(type, isCombo) ==
  IF type = "star" THEN (IF isCombo THEN "DOUBLE FLAME!" ELSE "FLARE")
  ELSE IF type = "asteroid" THEN "BUMP"
  ELSE (IF isCombo THEN "CRACK!" ELSE "HIT")

Spark(n) == [x |-> n.x, y |-> n.y, type |-> "spark", life |-> 20, scale |-> 0]

\* the reward of a standard hit goes to the resource of the node's type
Pay(t, n, reward) ==
  IF n.type = "star"
  THEN [t EXCEPT !.ns.energy = @ + reward,
                 !.nve = Append(@, [x |-> n.x, y |-> n.y, type |-> "flare",
                                    life |-> 30, scale |-> 15])]
  ELSE IF n.type = "asteroid" THEN [t EXCEPT !.ns.knowledge = @ + reward]
  ELSE [t EXCEPT !.ns.biomass = @ + reward]

Hit(t, n, isCombo) ==
  [Pay(t, n, HitReward(n.type, isCombo)) EXCEPT
     !.ns.turnHitIds.ids = @ \cup {n.id},
     !.nft = Append(@, FloatingText(n.x, n.y - 3000, RewardText(n.type, isCombo), 40, -150)),
     !.nve = IF isCombo THEN @ \o [k \in 1..8 |-> Spark(n)] ELSE @,
     !.ns.screenShake = [intensity |-> 5, duration |-> 5],
     !.kind = IF isCombo THEN "combo" ELSE "standard"]

\* variant of StandardHit: the hit set is not consulted, no hit is a combo
StandardHit_first(t, i) ==
  IF ~t.ns.turnHitIds.isSet
  THEN [t EXCEPT !.threw = TRUE]
  ELSE Hit(t, t.mn[i], FALSE)

\* STANDARD HIT / COMBO
StandardHit(t, i) ==
  IF ~t.ns.turnHitIds.isSet
  THEN [t EXCEPT !.threw = TRUE]      \* turnHitIds.has is not a function
  ELSE Hit(t, t.mn[i], t.mn[i].id \in t.ns.turnHitIds.ids)

\* variant of Struck: asteroids take damage like every other node
Struck_brittle(t, pi, i, v) ==
  [t EXCEPT !.mn[i].currentIntegrity = @ - 1,
            !.mn[i].integrityCooldown = HIT_COOLDOWN,
            !.mn[pi].vx = v.vx, !.mn[pi].vy = v.vy,
            !.hit = t.mn[i].id, !.kind = "none"]

\* the hit itself: integrity, cooldown, and the bounce velocity v
Struck(t, pi, i, v) ==
  [t EXCEPT !.mn[i].currentIntegrity = IF t.mn[i].type # "asteroid" THEN @ - 1 ELSE @,
            !.mn[i].integrityCooldown = HIT_COOLDOWN,
            !.mn[pi].vx = v.vx, !.mn[pi].vy = v.vy,
            !.hit = t.mn[i].id, !.kind = "none"]

\* variant of Outcome: death is tested with < 0 in place of <= 0
Outcome_strict(t, pi, i) ==
  IF t.mn[i].currentIntegrity < 0 /\ t.mn[i].type # "asteroid"
  THEN IF t.mn[i].type = "star" THEN Supernova(t, pi, i)
       ELSE IF t.mn[i].type \in PlanetLike THEN Assimilation(t, pi, i)
       ELSE t
  ELSE StandardHit(t, i)

\* Check Integrity Death
Outcome(t, pi, i) ==
  IF t.mn[i].currentIntegrity <= 0 /\ t.mn[i].type # "asteroid"
  THEN IF t.mn[i].type = "star" THEN Supernova(t, pi, i)
       ELSE IF t.mn[i].type \in PlanetLike THEN Assimilation(t, pi, i)
       ELSE t
  ELSE StandardHit(t, i)

\* COLLISION HANDLER for the node at index i (its cooldown has expired)
CollisionHandler(t, pi, i) == Outcome(Struck(t, pi, i, Bounce(t.mn[pi], t.mn[i])), pi, i)

\* variant of CollisionAt: the handler runs whatever the node's cooldown
CollisionAt_any(t, pi, i) == IF i # 0 THEN CollisionHandler(t, pi, i) ELSE t

\* variant of NodeCollision: the loop has no break, every overlapping node
\* whose cooldown has expired is handled
RECURSIVE CollideEach(_, _)
CollideEach(t, ids) ==
  IF ids = <<>> \/ t.threw THEN t
  ELSE LET pi == PlayerIndex(t.mn)
           i == NodeIndexById(t.mn, Head(ids))
       IN IF i # 0 /\ i # pi /\ Overlaps(t.mn[pi], t.mn[i]) /\ t.mn[i].integrityCooldown <= 0
          THEN CollideEach(CollisionHandler(t, pi, i), Tail(ids))
          ELSE CollideEach(t, Tail(ids))

NodeCollision_all(t) == CollideEach(t, [i \in DOMAIN t.mn |-> t.mn[i].id])

\* the loop stops at the first overlapping node, handled or not
CollisionAt(t, pi, i) ==
  IF i # 0 /\ t.mn[i].integrityCooldown <= 0 THEN CollisionHandler(t, pi, i) ELSE t

NodeCollision(t) == CollisionAt(t, PlayerIndex(t.mn), FirstOverlap(t.mn, PlayerIndex(t.mn)))

\* Reform if too slow
Reform(t, pi) ==
  IF Hypot(t.mn[pi].vx, t.mn[pi].vy) < REFORM_SPEED
  THEN [t EXCEPT !.mn[pi].vx = 0, !.mn[pi].vy = 0,
                 !.ns.projection.playerState = "REFORMING",
                 !.ns.projection.reformTimer = REFORM_DURATION]
  ELSE t

ReformIfSlow(t) == IF t.threw THEN t ELSE Reform(t, PlayerIndex(t.mn))

\* 1. Dust Collision: every particle within reach of the player is removed and
\* pays DUST_REWARD; as many new ones are appended
InDustReach(p, d) == Hypot(p.x - d.x, p.y - d.y) < p.radius + d.size + DUST_LEEWAY

\* variant of DustCollision: the particles consumed are not replaced
DustCollision_unreplaced(t, in) ==
  LET p == t.mn[PlayerIndex(t.mn)]
      hitIds == {d.id : d \in {e \in Range(t.ns.spaceDust) : InDustReach(p, e)}}
      n == Cardinality({i \in DOMAIN t.ns.spaceDust : InDustReach(p, t.ns.spaceDust[i])})
  IN IF n = 0 THEN t
     ELSE [t EXCEPT
             !.ns.knowledge = @ + n * DUST_REWARD,
             !.popped = n,
             !.ns.spaceDust = Filter(@, LAMBDA d : d.id \notin hitIds)]

DustCollision(t, in) ==
  LET p == t.mn[PlayerIndex(t.mn)]
      hitIds == {d.id : d \in {e \in Range(t.ns.spaceDust) : InDustReach(p, e)}}
      n == Cardinality({i \in DOMAIN t.ns.spaceDust : InDustReach(p, t.ns.spaceDust[i])})
  IN IF n = 0 THEN t
     ELSE [t EXCEPT
             !.ns.knowledge = @ + n * DUST_REWARD,
             !.popped = n,
             !.ns.spaceDust =
                Filter(@, LAMBDA d : d.id \notin hitIds)
                  \o createSpaceDust(Cardinality(hitIds), in.width * 3, in.height * 3, in.seed)]

TickProjecting(t, in) == ReformIfSlow(NodeCollision(DustCollision(t, in)))

\* variant of TickReforming: IDLE one tick before the timer runs out
TickReforming_early(t) ==
  LET timer == t.ns.projection.reformTimer - 1
  IN [t EXCEPT !.ns.projection.reformTimer = timer,
               !.ns.projection.playerState = IF timer <= 1 THEN "IDLE" ELSE @]

TickReforming(t) ==
  LET timer == t.ns.projection.reformTimer - 1
  IN [t EXCEPT !.ns.projection.reformTimer = timer,
               !.ns.projection.playerState = IF timer <= 0 THEN "IDLE" ELSE @]

\* PROJECTION STATE MACHINE & COLLISION
\* variant of ProjectionStage: the collisions are resolved in every state
ProjectionStage_always(t, in) ==
  IF PlayerIndex(t.mn) = 0 THEN t
  ELSE LET st == t.ns.projection.playerState
       IN IF st = "AIMING_DIRECTION" THEN TickProjecting(TickAimingDirection(t), in)
          ELSE IF st = "AIMING_POWER" THEN TickProjecting(TickAimingPower(t, in), in)
          ELSE IF st = "REFORMING" THEN TickReforming(t)
          ELSE TickProjecting(t, in)

ProjectionStage(t, in) ==
  IF PlayerIndex(t.mn) = 0 THEN t
  ELSE LET st == t.ns.projection.playerState
       IN IF st = "AIMING_DIRECTION" THEN TickAimingDirection(t)
          ELSE IF st = "AIMING_POWER" THEN TickAimingPower(t, in)
          ELSE IF st = "PROJECTING" THEN TickProjecting(t, in)
          ELSE IF st = "REFORMING" THEN TickReforming(t)
          ELSE t

\* SATELLITE LOGIC: each satellite pays 0.1 energy (and 0.1 biomass if life_seed)
RECURSIVE SatelliteIncome(_, _)
SatelliteIncome(sats, type) ==
  IF sats = <<>> THEN 0
  ELSE (IF type = "any" \/ Head(sats).type = type THEN 1 ELSE 0)
       + SatelliteIncome(Tail(sats), type)

SatelliteStage(t) ==
  IF PlayerIndex(t.mn) = 0 THEN t
  ELSE [t EXCEPT !.ns.energy = @ + SatelliteIncome(t.ns.satellites, "any"),
                 !.ns.biomass = @ + SatelliteIncome(t.ns.satellites, "life_seed")]

\* variant of DustPhysics: the dust stays where it is
DustPhysics_still(t) == t

\* DUST PHYSICS
DustPhysics(t) ==
  [t EXCEPT !.ns.spaceDust = Map(@, LAMBDA d : [d EXCEPT !.x = @ + d.vx, !.y = @ + d.vy])]

\* variant of EffectsStage: an effect is kept for the tick in which its life runs out
EffectsStage_lingering(t) ==
  [t EXCEPT
     !.ns.shockwaves = Filter(Map(t.nsw, LAMBDA w : [w EXCEPT !.life = @ + 5]),
                              LAMBDA w : w.life <= 100),
     !.ns.floatingTexts = Filter(Map(t.nft, LAMBDA f : [f EXCEPT !.y = @ + f.vy, !.life = @ - 1]),
                                 LAMBDA f : f.life >= 0),
     !.ns.visualEffects = Filter(Map(t.nve, LAMBDA e : [e EXCEPT !.life = @ - 1]),
                                 LAMBDA e : e.life >= 0)]

\* SHOCKWAVE / FLOATING TEXT / VISUAL EFFECTS UPDATES
EffectsStage(t) ==
  [t EXCEPT
     !.ns.shockwaves = Filter(Map(t.nsw, LAMBDA w : [w EXCEPT !.life = @ + 5]),
                              LAMBDA w : w.life < 100),
     !.ns.floatingTexts = Filter(Map(t.nft, LAMBDA f : [f EXCEPT !.y = @ + f.vy, !.life = @ - 1]),
                                 LAMBDA f : f.life > 0),
     !.ns.visualEffects = Filter(Map(t.nve, LAMBDA e : [e EXCEPT !.life = @ - 1]),
                                 LAMBDA e : e.life > 0)]

RECURSIVE CountType(_, _)
CountType(nodes, type) ==
  IF nodes = <<>> THEN 0
  ELSE (IF Head(nodes).type = type THEN 1 ELSE 0) + CountType(Tail(nodes), type)

\* Resources & Karma logic.  The cooldown recovery of this loop decrements the
\* node objects of nextState.nodes, which are the objects of the input World;
\* the World returned takes its nodes from mutableNodes (NodesWriteBack).
ResourceStage(t) ==
  [t EXCEPT !.ns.knowledge = @ + BASE_KNOWLEDGE_RATE,
            !.ns.energy = @ + STAR_ENERGY_RATE * CountType(t.ns.nodes, "star")]

\* attraction of node n towards otherNode, in 1/100 units per tick
Pull(n, o) ==
  LET dx == o.x - n.x
      dy == o.y - n.y
      d2 == RDiv(dx, 10) * RDiv(dx, 10) + RDiv(dy, 10) * RDiv(dy, 10)
      f == IF d2 > 10000
           THEN RDiv((IF o.type = "star" THEN 20 ELSE 5) * o.radius, d2) ELSE 0
  IN IF f = 0 THEN [vx |-> 0, vy |-> 0]
     ELSE LET dist == Hypot(dx, dy)
          IN [vx |-> RDiv(dx * f, dist), vy |-> RDiv(dy * f, dist)]

RECURSIVE PullSum(_, _, _)
PullSum(n, mn, j) ==
  IF j > Len(mn) THEN [vx |-> 0, vy |-> 0]
  ELSE LET rest == PullSum(n, mn, j + 1)
           o == mn[j]
       IN IF n.id = o.id \/ IsPlayer(o) THEN rest
          ELSE LET q == Pull(n, o)
               IN [vx |-> q.vx + rest.vx, vy |-> q.vy + rest.vy]

\* a non-player node gains the summed pull q, moves, and is damped
Drift(n, q) ==
  [n EXCEPT !.x = @ + n.vx + q.vx, !.y = @ + n.vy + q.vy,
            !.vx = RDiv((@ + q.vx) * 99, 100), !.vy = RDiv((@ + q.vy) * 99, 100)]

\* position and velocity integration of one node
Integrate(n, mn, projecting) ==
  IF IsPlayer(n)
  THEN IF projecting
       THEN [n EXCEPT !.x = @ + n.vx, !.y = @ + n.vy,
                      !.vx = RDiv(n.vx * PROJECTILE_FRICTION, 100),
                      !.vy = RDiv(n.vy * PROJECTILE_FRICTION, 100)]
       ELSE n
  ELSE Drift(n, PullSum(n, mn, 1))

OutOfBounds(n, wr) == Hypot(n.x, n.y) > wr - n.radius

\* variant of Sidewall: the node's centre, not its rim, is put on the circle
Sidewall_edge(n, wr) ==
  LET u == UnitVec(n.x, n.y)
  IN [n EXCEPT !.x = RDiv(u.c * wr, 1000), !.y = RDiv(u.s * wr, 1000),
               !.vx = RDiv(@ * (-5), 10), !.vy = RDiv(@ * (-5), 10)]

\* variant of Sidewall: the player's bounce is elastic (factor 2 in place of 2.2)
Sidewall_elastic(n, wr) ==
  LET u == UnitVec(n.x, n.y)
      x == RDiv(u.c * (wr - n.radius), 1000)
      y == RDiv(u.s * (wr - n.radius), 1000)
      dot == RDiv(n.vx * u.c + n.vy * u.s, 1000)
  IN IF IsPlayer(n)
     THEN [n EXCEPT !.x = x, !.y = y,
                    !.vx = @ - RDiv(20 * RDiv(dot * u.c, 1000), 10),
                    !.vy = @ - RDiv(20 * RDiv(dot * u.s, 1000), 10)]
     ELSE [n EXCEPT !.x = x, !.y = y,
                    !.vx = RDiv(@ * (-5), 10), !.vy = RDiv(@ * (-5), 10)]

\* Boundary checks (Sidewalls): clamp onto the boundary and bounce
Sidewall(n, wr) ==
  LET u == UnitVec(n.x, n.y)
      x == RDiv(u.c * (wr - n.radius), 1000)
      y == RDiv(u.s * (wr - n.radius), 1000)
      dot == RDiv(n.vx * u.c + n.vy * u.s, 1000)
  IN IF IsPlayer(n)
     THEN [n EXCEPT !.x = x, !.y = y,
                    !.vx = @ - RDiv(22 * RDiv(dot * u.c, 1000), 10),
                    !.vy = @ - RDiv(22 * RDiv(dot * u.s, 1000), 10)]
     ELSE [n EXCEPT !.x = x, !.y = y,
                    !.vx = RDiv(@ * (-5), 10), !.vy = RDiv(@ * (-5), 10)]

StarOrb(n) == [x |-> n.x, y |-> n.y, radius |-> 400, value |-> 100]

\* Wall Bounce Effect: the spark goes to the list that was already stored
WallEffect(t, n, out) ==
  IF out /\ IsPlayer(n)
  THEN [t EXCEPT !.ns.screenShake = [intensity |-> 3, duration |-> 5],
                 !.nve = Append(@, [x |-> n.x, y |-> n.y, type |-> "spark",
                                    life |-> 10, scale |-> 20]),
                 !.walled = TRUE]
  ELSE t

\* Star Orb Logic
StarOrbStep(t, n, in) ==
  IF n.type = "star" /\ n.id \in in.orbStars
  THEN [t EXCEPT !.ns.energyOrbs = Append(@, StarOrb(n))]
  ELSE t

\* node i after its move: n is where it ends, out whether it left the world
Place(t, i, n, out, in) == StarOrbStep(WallEffect([t EXCEPT !.mn[i] = n], n, out), n, in)

\* variant of NodeStep: the boundary does not hold the player
NodeStep_open(t, i, moved, wr, in) ==
  Place(t, i, IF OutOfBounds(moved, wr) /\ ~IsPlayer(moved) THEN Sidewall(moved, wr) ELSE moved,
        OutOfBounds(moved, wr) /\ ~IsPlayer(moved), in)

NodeStep(t, i, moved, wr, in) ==
  Place(t, i, IF OutOfBounds(moved, wr) THEN Sidewall(moved, wr) ELSE moved,
        OutOfBounds(moved, wr), in)

\* Node Physics, node by node in registry order (Array.forEach, in place)
RECURSIVE NodePhysics(_, _, _, _)
NodePhysics(t, i, wr, in) ==
  IF i > Len(t.mn) THEN t
  ELSE NodePhysics(
         NodeStep(t, i, Integrate(t.mn[i], t.mn,
                                  t.ns.projection.playerState = "PROJECTING"), wr, in),
         i + 1, wr, in)

InReach(p, orb) ==
  Hypot(p.x - orb.x, p.y - orb.y) < p.radius + orb.radius + ORB_COLLECTION_LEEWAY

RECURSIVE SumValues(_)
SumValues(orbs) == IF orbs = <<>> THEN 0 ELSE Head(orbs).value + SumValues(Tail(orbs))

\* energy orbs within reach of the player are collected
OrbStage(t) ==
  LET pi == PlayerIndex(t.mn)
  IN IF pi = 0 THEN [t EXCEPT !.pushed = t.ns.energyOrbs]
     ELSE LET taken == Filter(t.ns.energyOrbs, LAMBDA o : InReach(t.mn[pi], o))
          IN [t EXCEPT !.ns.energyOrbs = Filter(@, LAMBDA o : ~InReach(t.mn[pi], o)),
                       !.pushed = t.ns.energyOrbs,
                       !.ns.energy = @ + SumValues(taken),
                       !.collected = Len(taken),
                       !.gained = SumValues(taken)]

TrailStage(t) ==
  LET pi == PlayerIndex(t.mn)
      aged == Filter(Map(t.ns.projectileTrailParticles, LAMBDA q : [q EXCEPT !.life = @ - 1]),
                     LAMBDA q : q.life > 0)
  IN [t EXCEPT !.ns.projectileTrailParticles =
        IF pi # 0 /\ t.ns.projection.playerState = "PROJECTING"
        THEN Append(aged, [x |-> t.mn[pi].x, y |-> t.mn[pi].y, life |-> 25])
        ELSE aged]

\* nextState.nodes = mutableNodes
NodesWriteBack(t) == [t EXCEPT !.ns.nodes = t.mn]

TickStart(s) ==
  [ns |-> s, mn |-> s.nodes,
   nft |-> s.floatingTexts, nsw |-> s.shockwaves, nve |-> s.visualEffects,
   threw |-> FALSE, hit |-> NULL, kind |-> "none", walled |-> FALSE,
   collected |-> 0, gained |-> 0, popped |-> 0, pushed |-> s.energyOrbs]

\* the unpaused TICK, stage by stage
TickRun(s, in) ==
  LET a == ProjectionStage(TickStart(s), in)
  IN IF a.threw THEN a
     ELSE NodesWriteBack(TrailStage(OrbStage(
            NodePhysics(ResourceStage(EffectsStage(DustPhysics(SatelliteStage(a)))),
                        1, worldRadius(s, in), in))))

\* The World the TICK was given, as the call leaves it.  nextState is a
\* shallow copy, so what is written through it into an object or array of the
\* World given is written to that World: the fields of projection (693, 697,
\* 864-872), turnHitIds.add (828), satellites.push (779), notifications.push
\* (756), energyOrbs.push (765, 981) and integrityCooldown-- on the nodes of
\* nextState.nodes (918), which are the nodes given less an assimilated one.
Mutated(s, r) ==
  IF r.threw THEN s
  ELSE [s EXCEPT
          !.projection = r.ns.projection,
          !.turnHitIds = r.ns.turnHitIds,
          !.satellites = r.ns.satellites,
          !.notifications = r.ns.notifications,
          !.energyOrbs = r.pushed,
          !.nodes = Map(@, LAMBDA n :
                      IF n.integrityCooldown > 0 /\ ~(r.kind = "assimilation" /\ n.id = r.hit)
                      THEN [n EXCEPT !.integrityCooldown = @ - 1] ELSE n)]

\* variant of TICK: the pause is not looked at
TICK_unpaused(s, in) == TickRun(s, in).ns

\* case 'TICK'
TICK(s, in) == IF s.isPaused THEN s ELSE TickRun(s, in).ns

\* ------------------------------------------------------ the other actions
\* case 'START_GAME'
START_GAME(s, playerImageUrl, seed) ==
  LET pi == PlayerIndex(s.nodes)
  IN IF pi = 0 THEN s
     ELSE [initialState EXCEPT
             !.gameStarted = TRUE,
             !.nodes = [s.nodes EXCEPT ![pi].imageUrl = playerImageUrl],
             !.spaceDust = createSpaceDust(DUST_COUNT, DUST_FIELD, DUST_FIELD, seed),
             !.notifications = <<"The cosmos awakens to your presence.">>]

\* variant of START_AIMING without the guard on playerState
START_AIMING_unguarded(s) ==
  [s EXCEPT !.tutorialStep = IF @ = 0 THEN 1 ELSE @,
            !.projection.playerState = "AIMING_DIRECTION"]

\* case 'START_AIMING'
START_AIMING(s) ==
  IF s.projection.playerState # "IDLE" THEN s
  ELSE [s EXCEPT !.tutorialStep = IF @ = 0 THEN 1 ELSE @,
                 !.projection.playerState = "AIMING_DIRECTION"]

\* case 'SET_DIRECTION'
SET_DIRECTION(s) ==
  IF s.projection.playerState # "AIMING_DIRECTION" THEN s
  ELSE LET pi == PlayerIndex(s.nodes)
           ti == NodeIndexById(s.nodes, s.aimAssistTargetId)
           finalAimAngle ==
             IF pi # 0 /\ ti # 0
             THEN Atan2(s.nodes[ti].y - s.nodes[pi].y, s.nodes[ti].x - s.nodes[pi].x)
             ELSE s.projection.aimAngle
       IN [s EXCEPT !.tutorialStep = IF @ = 1 THEN 2 ELSE @,
                    !.projection.playerState = "AIMING_POWER",
                    !.projection.aimAngle = finalAimAngle]

\* variant of LAUNCH_PLAYER: the hit set of the previous launch is kept
LAUNCH_PLAYER_keeps_hits(s) ==
  IF s.projection.playerState # "AIMING_POWER" THEN s
  ELSE LET pi == PlayerIndex(s.nodes)
           launchStrength == s.projection.power * MAX_LAUNCH_POWER
       IN [s EXCEPT
             !.tutorialStep = IF @ = 2 THEN 3 ELSE @,
             !.nodes[pi].vx = RDiv(Cos(s.projection.aimAngle) * launchStrength, 1000),
             !.nodes[pi].vy = RDiv(Sin(s.projection.aimAngle) * launchStrength, 1000),
             !.projection.playerState = "PROJECTING",
             !.projection.power = 0]

\* variant of LAUNCH_PLAYER without the guard on playerState
LAUNCH_PLAYER_unguarded(s) ==
  LET pi == PlayerIndex(s.nodes)
      launchStrength == s.projection.power * MAX_LAUNCH_POWER
  IN [s EXCEPT
        !.nodes[pi].vx = RDiv(Cos(s.projection.aimAngle) * launchStrength, 1000),
        !.nodes[pi].vy = RDiv(Sin(s.projection.aimAngle) * launchStrength, 1000),
        !.projection.playerState = "PROJECTING",
        !.projection.power = 0,
        !.turnHitIds = EmptyHitSet]

\* case 'LAUNCH_PLAYER'
LAUNCH_PLAYER(s) ==
  IF s.projection.playerState # "AIMING_POWER" THEN s
  ELSE LET pi == PlayerIndex(s.nodes)
           launchStrength == s.projection.power * MAX_LAUNCH_POWER
       IN IF pi = 0 THEN s
          ELSE [s EXCEPT
                  !.tutorialStep = IF @ = 2 THEN 3 ELSE @,
                  !.nodes[pi].vx = RDiv(Cos(s.projection.aimAngle) * launchStrength, 1000),
                  !.nodes[pi].vy = RDiv(Sin(s.projection.aimAngle) * launchStrength, 1000),
                  !.projection.playerState = "PROJECTING",
                  !.projection.power = 0,
                  !.projectileTrailParticles =
                     Append(@, [x |-> s.nodes[pi].x, y |-> s.nodes[pi].y, life |-> 15]),
                  !.turnHitIds = EmptyHitSet]

\* case 'SELECT_NODE'
SELECT_NODE(s, nodeId) ==
  [s EXCEPT !.selectedNodeId = nodeId,
            !.aimAssistTargetId = IF nodeId # NULL THEN nodeId ELSE @,
            !.tutorialStep = IF @ = 2 /\ nodeId = "tutorial_planet" THEN 3 ELSE @]

\* case 'CHANGE_SETTING' (the volume keys, which only call the audio service,
\* are left out: settings holds aimAssist)
CHANGE_SETTING(s, key, value) ==
  [s EXCEPT !.settings = [@ EXCEPT ![key] = value]]

\* case 'SET_LORE_LOADING'
SET_LORE_LOADING(s, nodeId) ==
  [s EXCEPT !.loreState = [nodeId |-> nodeId, text |-> NoText, isLoading |-> TRUE],
            !.tutorialStep = IF @ = 3 /\ nodeId = "tutorial_planet" THEN 4 ELSE @]

\* variant of SET_LORE_RESULT: the result is shown whatever node it is for
SET_LORE_RESULT_unmatched(s, nodeId, text) ==
  [s EXCEPT !.loreState = [@ EXCEPT !.text = text, !.isLoading = FALSE]]

\* case 'SET_LORE_RESULT'
SET_LORE_RESULT(s, nodeId, text) ==
  IF s.loreState.nodeId # nodeId THEN s
  ELSE [s EXCEPT !.loreState = [@ EXCEPT !.text = text, !.isLoading = FALSE]]

\* case 'CLEAR_LORE'
CLEAR_LORE(s) ==
  [s EXCEPT !.loreState = [nodeId |-> NULL, text |-> NoText, isLoading |-> FALSE]]

\* case 'SET_PAUSED'
SET_PAUSED(s, payload) == [s EXCEPT !.isPaused = payload]

\* case 'UPDATE_NODE_IMAGE'
UPDATE_NODE_IMAGE(s, nodeId, imageUrl) ==
  [s EXCEPT !.nodes = Map(@, LAMBDA node : IF node.id = nodeId
                                          THEN [node EXCEPT !.imageUrl = imageUrl]
                                          ELSE node)]

\* variant of COMPLETE_LEVEL_TRANSITION: the new level starts with an empty registry
COMPLETE_LEVEL_TRANSITION_empty(s, seed) ==
  [s EXCEPT !.levelTransitionState = "none",
            !.zoomLevel = @ + 1,
            !.nodes = <<>>,
            !.satellites = <<>>,
            !.energyOrbs = <<>>,
            !.spaceDust = createSpaceDust(DUST_COUNT, DUST_FIELD, DUST_FIELD, seed)]

\* case 'COMPLETE_LEVEL_TRANSITION'
COMPLETE_LEVEL_TRANSITION(s, seed) ==
  LET pi == PlayerIndex(s.nodes)
  IN [s EXCEPT !.levelTransitionState = "none",
               !.zoomLevel = @ + 1,
               !.nodes = IF pi # 0 THEN <<s.nodes[pi]>> ELSE <<>>,
               !.satellites = <<>>,
               !.energyOrbs = <<>>,
               !.spaceDust = createSpaceDust(DUST_COUNT, DUST_FIELD, DUST_FIELD, seed)]

\* case 'PURCHASE_UPGRADE': the costs are subtracted, the upgrade is recorded
PURCHASE_UPGRADE(s, upgrade) ==
  [s EXCEPT !.energy = @ - upgrade.cost.energy,
            !.knowledge = @ - upgrade.cost.knowledge,
            !.biomass = @ - upgrade.cost.biomass,
            !.unlockedUpgrades = @ \cup {upgrade.id}]

\* JSON.parse(JSON.stringify(stateToSave)): a Set is written as {}
StoredBlob(s) == [s EXCEPT !.turnHitIds = [isSet |-> FALSE, ids |-> {}]]

\* variant of SAVE_GAME: a failed save pauses the game
SAVE_GAME_halting(s, ok) ==
  [s EXCEPT !.notifications =
              Append(@, IF ok THEN "Game Saved!" ELSE "Error: Could not save game."),
            !.isPaused = IF ok THEN @ ELSE TRUE]

\* case 'SAVE_GAME': the World returned; ok is whether localStorage.setItem succeeded
SAVE_GAME(s, ok) ==
  [s EXCEPT !.notifications =
     Append(@, IF ok THEN "Game Saved!" ELSE "Error: Could not save game.")]

\* case 'LOAD_GAME': spreading the notifications of a payload that has none
\* throws a TypeError, which the case catches
LOAD_GAME(s, loadedState) ==
  IF "notifications" \notin DOMAIN loadedState THEN s
  ELSE [loadedState EXCEPT !.isPaused = FALSE, !.gameStarted = TRUE,
                           !.notifications = Append(@, "Game Loaded!")]

\* ------------------------------------------------------------ environment
\* Worlds an earlier session left in localStorage, late in a game: the
\* tutorial planet has fallen towards the central star (the node physics pulls
\* every planet to it), planet_left has been assimilated, and planet and star
\* have each taken one hit; karma has risen above the harmony threshold; the
\* user had selected planet_left before it was assimilated, 58 ticks ago: its
\* ASSIMILATED text is about to fade.  cd is the planet's integrityCooldown,
\* starI the star's currentIntegrity.
LateNodes(cd, starI) ==
  << Node("player_consciousness", "player_consciousness", 0, 30000, 2000, "img_player", 100, 100, 0),
     Node("tutorial_planet", "rocky_planet", 0, -800, 2500, "img_rocky", 2, 1, cd),
     Node("central_star", "star", 0, 0, 4000, "img_star", 2, starI, 0) >>
  \o [i \in 1..8 |-> Node(RingId[i], "asteroid", RingX[i], RingY[i], 1500, NULL, 1000, 1000, 0)]
  \o << Node("planet_right", "rocky_planet", 25000, -5000, 2200, "img_rocky", 2, 2, 0) >>

LateWorld(cd, starI) ==
  [initialState EXCEPT
     !.gameStarted = TRUE, !.tutorialStep = -1,
     !.energy = 3200, !.knowledge = 450, !.biomass = 2500, !.karma = 60,
     !.nodes = LateNodes(cd, starI),
     !.selectedNodeId = "planet_left", !.aimAssistTargetId = "planet_left",
     !.floatingTexts = <<FloatingText(-25000, -14800, "ASSIMILATED", 2, -100)>>,
     !.spaceDust = createSpaceDust(DUST_COUNT, DUST_FIELD, DUST_FIELD, 0),
     !.satellites = <<[id |-> "planet_left", type |-> "rocky_planet",
                       imageUrl |-> "img_rocky", orbitRadius |-> 60]>>]

\* a World saved while the player was reforming after a flight: it has come to
\* rest against the tutorial planet, which it hit, with a dust particle next to
\* it; planet_right drifts towards the star at the speed the node physics
\* gives it in the long run; asteroid_ring_1 has been knocked outwards and
\* moves on at 0.5 units per tick, beyond the boundary of a small window
ReformingWorld ==
  [initialState EXCEPT
     !.gameStarted = TRUE, !.tutorialStep = -1,
     !.nodes[1].x = 3000, !.nodes[1].y = -12000,
     !.nodes[2].currentIntegrity = 1, !.nodes[2].integrityCooldown = HIT_COOLDOWN,
     !.nodes[13].vx = -1,
     !.nodes[5].x = 40100, !.nodes[5].y = 40600, !.nodes[5].vx = 40, !.nodes[5].vy = 30,
     !.spaceDust = [createSpaceDust(DUST_COUNT, DUST_FIELD, DUST_FIELD, 0)
                      EXCEPT ![1].x = 3500, ![1].y = -12500],
     !.projection = [playerState |-> "REFORMING", aimAngle |-> 0,
                     power |-> 0, reformTimer |-> 1]]

PriorSaves ==
  {StoredBlob(LateWorld(0, 1)), StoredBlob(LateWorld(HIT_COOLDOWN, 2)),
   StoredBlob(ReformingWorld)}

\* the window sizes App finds when it is mounted (a desktop window, a phone)
Viewports == {[width |-> 800, height |-> 600], [width |-> 390, height |-> 844]}
\* Date.now() (ms) at the TICKs of AIMING_POWER: the oscillation at its peak
\* (power 100) and at its trough (power 0)
PowerSamples == {1047, 3142}
\* the nodes the user clicks
Selectable == {"central_star"}
\* the upgrades offered (costs in 1/10 resource points)
Upgrades == {[id |-> "basic_physics",
              cost |-> [energy |-> 0, knowledge |-> 200, biomass |-> 0]]}

StarIds(s) == {s.nodes[i].id : i \in {j \in DOMAIN s.nodes : s.nodes[j].type = "star"}}

\* the game is not in flight: only the user (or the reform timer) moves it on;
\* MaxWait bounds the TICKs that pass meanwhile (those of a reform excepted)
Waiting(s) == s.projection.playerState # "PROJECTING"

TickInputs ==
  {[width |-> dimensions.width, height |-> dimensions.height, now |-> pw,
    orbStars |-> os, seed |-> budget.ticks + 1] :
     pw \in IF world.projection.playerState = "AIMING_POWER" THEN PowerSamples ELSE {0},
     os \in {{}} \cup IF budget.ticks < OrbTicks
                      THEN {{id} : id \in StarIds(world)} ELSE {}}

\* what a TICK can write to in the World it is given
Observed(s) ==
  [projection |-> s.projection,
   cooldowns |-> [i \in DOMAIN s.nodes |-> s.nodes[i].integrityCooldown],
   turnHitIds |-> s.turnHitIds, satellites |-> s.satellites,
   energyOrbs |-> s.energyOrbs, notifications |-> s.notifications]

\* ------------------------------------------------- the generative service
\* src/src/services/geminiService.ts: four exported functions ask the
\* generative service for a text, an image or a video through
\* retryWithBackoff.  svc is one such call from its invocation to the
\* settling of its promise, and the MilestoneVisual component that awaits a
\* video.
MAX_RETRIES == 5
INITIAL_BACKOFF_MS == 5000

ServiceFns ==
  {"getGeminiFlavorText", "getGeminiLoreForNode", "generateNodeImage", "generateMilestoneVideo"}

\* what one request to the service can come to: a usable answer, an answer
\* without the text / image / video asked for, a rate-limit error (429 or
\* resource_exhausted), a permission or not-found error (403, 404), any
\* other error
Outcomes == {"ok", "empty", "rate_limit", "denied", "error"}

\* MilestoneVisual before it is rendered, and after its first render
Unmounted == [mounted |-> FALSE, isLoading |-> FALSE, videoUrl |-> NULL]
MilestoneVisual == [mounted |-> TRUE, isLoading |-> TRUE, videoUrl |-> NULL]

NoCall ==
  [fn |-> NULL, pc |-> "idle", studio |-> FALSE, retries |-> 0, attempts |-> 0,
   log |-> <<>>, waits |-> <<>>, polls |-> 0, value |-> NULL, visual |-> Unmounted,
   pending |-> {}, asked |-> 0, current |-> 0]

\* the promise of the call is fulfilled with v: "result" for what the service
\* produced, "default" for null or the fixed fallback string
Resolved(c, v) == [c EXCEPT !.pc = "resolved", !.value = v]

\* handleApiError: a permission or not-found error opens the key selection
\* dialog where the page offers one (window.aistudio), and is awaited
handleApiError(c, outcome) ==
  IF outcome = "denied" /\ c.studio
    THEN [c EXCEPT !.pc = "prompting"]
    ELSE Resolved(c, "default")

\* retryWithBackoff with a sixth invocation allowed
retryWithBackoff_persistent(c0, outcome) ==
  LET c == [c0 EXCEPT !.log = Append(@, outcome)]
  IN CASE outcome = "ok" -> [c EXCEPT !.pc = "resolved", !.value = "result"]
       [] outcome = "empty" -> [c EXCEPT !.pc = "resolved", !.value = "default"]
       [] outcome = "rate_limit" ->
            IF c.retries + 1 > MAX_RETRIES
              THEN [c EXCEPT !.retries = @ + 1, !.pc = "resolved", !.value = "default"]
              ELSE [c EXCEPT !.retries = @ + 1,
                             !.pc = "backoff",
                             !.waits = Append(@, INITIAL_BACKOFF_MS * 2 ^ c.retries)]
       [] OTHER -> [c EXCEPT !.pc = "resolved", !.value = "default"]

\* retryWithBackoff, from the settling of operation() with the given outcome
\* to the next await or to the return
retryWithBackoff(c0, outcome) ==
  LET c == [c0 EXCEPT !.log = Append(@, outcome)]
  IN CASE outcome = "ok" -> Resolved(c, "result")
       [] outcome = "empty" -> Resolved(c, "default")
       [] outcome = "rate_limit" ->
            IF c.retries + 1 >= MAX_RETRIES
              THEN Resolved([c EXCEPT !.retries = @ + 1], "default")
              ELSE [c EXCEPT !.retries = @ + 1,
                             !.pc = "backoff",
                             !.waits = Append(@, INITIAL_BACKOFF_MS * 2 ^ c.retries)]
       [] OTHER -> handleApiError(c, outcome)

NoAux ==
  [threw |-> FALSE, hit |-> NULL, kind |-> "none", walled |-> FALSE,
   collected |-> 0, gained |-> 0, popped |-> 0, seen |-> NULL]

\* A call that returned the World it was given leaves nothing new to explore:
\* what can follow it is what could follow the state before it.
Settled == last.type = "INIT" \/ last.pre # world

\* one reducer call: the World becomes new; last records the call
Reduce(type, payload, new, aux) ==
  /\ ~err
  /\ Settled
  /\ world' = new
  /\ last' = [type |-> type, payload |-> payload, pre |-> world, aux |-> aux]
  /\ err' = aux.threw
  /\ UNCHANGED <<dimensions, svc>>

Init ==
  /\ world = initialState
  /\ storage = {}
  /\ err = FALSE
  /\ last = [type |-> "INIT", payload |-> NULL, pre |-> initialState, aux |-> NoAux]
  /\ budget = [ticks |-> 0, wait |-> 0, events |-> 0, after |-> 0, reform |-> -1]
  /\ dimensions \in Viewports
  /\ svc = NoCall

\* App renders the splash screen until gameStarted, the game after it
AtSplash == ~world.gameStarted
InGame == world.gameStarted

\* the first TICKs of a behaviour, in which the user's clicks are explored
Early == budget.ticks <= EventTicks

\* an action from outside the turn cycle, sent in the middle of a game
Interrupts == InGame /\ Early /\ budget.events < MaxEvents

\* a TICK while paused
PausedTick ==
  /\ world.isPaused
  /\ \E in \in TickInputs : Reduce("TICK", in, TICK(world, in), NoAux)
  /\ UNCHANGED <<storage, budget>>

\* budget.reform: the TICKs spent in REFORMING since a TICK entered it, -1 when
\* the state was not entered by a TICK of this behaviour
Reformed(old, new, count) ==
  IF old.projection.playerState = "PROJECTING"
  THEN (IF new.projection.playerState = "REFORMING" THEN 0 ELSE -1)
  ELSE IF old.projection.playerState = "REFORMING" /\ count >= 0 THEN count + 1
  ELSE -1

\* a TICK of the running game
Tick ==
  /\ ~world.isPaused
  /\ \/ world.projection.playerState = "REFORMING"      \* a reform runs to its end
     \/ /\ budget.ticks < MaxTicks
        /\ Waiting(world) => budget.wait < MaxWait
  /\ budget.events > 0 => budget.after < TailTicks
  /\ \E in \in TickInputs :
       \E r \in {TickRun(world, in)} :
       LET new == IF r.threw THEN world ELSE r.ns
       IN /\ Reduce("TICK", in, new,
                    [threw |-> r.threw, hit |-> r.hit, kind |-> r.kind,
                     walled |-> r.walled, collected |-> r.collected,
                     gained |-> r.gained, popped |-> r.popped,
                     seen |-> Observed(Mutated(world, r))])
          /\ budget' = [budget EXCEPT
                          !.ticks = @ + 1,
                          !.wait = IF Waiting(world) THEN @ + 1 ELSE @,
                          !.after = IF budget.events > 0 THEN @ + 1 ELSE @,
                          !.reform = Reformed(world, new, @)]
  /\ UNCHANGED storage

UserAction(type, payload, new) ==
  /\ InGame
  /\ Reduce(type, payload, new, NoAux)
  /\ UNCHANGED budget
  /\ UNCHANGED storage

\* a click of the turn cycle: in the state that accepts it, or a stray one early
TurnAction(state, type, new) ==
  /\ Early \/ world.projection.playerState = state
  /\ UserAction(type, NULL, new)

StartAiming == TurnAction("IDLE", "START_AIMING", START_AIMING(world))
SetDirection == TurnAction("AIMING_DIRECTION", "SET_DIRECTION", SET_DIRECTION(world))
LaunchPlayer == TurnAction("AIMING_POWER", "LAUNCH_PLAYER", LAUNCH_PLAYER(world))

SelectNode ==
  /\ Early
  /\ \E id \in Selectable \cup {NULL} :
       /\ id # world.selectedNodeId
       /\ UserAction("SELECT_NODE", id, SELECT_NODE(world, id))

\* an action that is counted as an interruption unless free
Event(free, type, payload, new) ==
  /\ free \/ Interrupts
  /\ Reduce(type, payload, new, NoAux)
  /\ budget' = IF free THEN budget ELSE [budget EXCEPT !.events = @ + 1, !.reform = -1]

SetPaused ==
  /\ \E b \in BOOLEAN :
       /\ b # world.isPaused
       /\ Event(~b, "SET_PAUSED", b, SET_PAUSED(world, b))
  /\ UNCHANGED storage

\* sent by the splash screen, or late by a second click on it
StartGame ==
  /\ Event(AtSplash, "START_GAME", "img_player_gen", START_GAME(world, "img_player_gen", 0))
  /\ UNCHANGED storage

CompleteLevelTransition ==
  /\ Event(FALSE, "COMPLETE_LEVEL_TRANSITION", NULL, COMPLETE_LEVEL_TRANSITION(world, 0))
  /\ UNCHANGED storage

\* sent by startGame once the generated image of the tutorial planet is there
UpdateNodeImage ==
  /\ Event(FALSE, "UPDATE_NODE_IMAGE", <<"tutorial_planet", "img_planet_gen">>,
           UPDATE_NODE_IMAGE(world, "tutorial_planet", "img_planet_gen"))
  /\ UNCHANGED storage

PurchaseUpgrade ==
  /\ \E u \in Upgrades : Event(FALSE, "PURCHASE_UPGRADE", u.id, PURCHASE_UPGRADE(world, u))
  /\ UNCHANGED storage

SaveGame ==
  \E ok \in BOOLEAN :
    /\ Event(FALSE, "SAVE_GAME", ok, SAVE_GAME(world, ok))
    /\ storage' = IF ok THEN {StoredBlob(world)} ELSE storage

\* the payload is what localStorage holds: this run's save or an earlier one
LoadGame ==
  /\ \E blob \in PriorSaves \cup storage :
       Event(AtSplash, "LOAD_GAME", blob, LOAD_GAME(world, blob))
  /\ UNCHANGED storage

\* localStorage holds something that is not a saved World
StrayBlobs == {[gameStarted |-> TRUE]}

LoadStray ==
  /\ \E blob \in StrayBlobs :
       Event(AtSplash, "LOAD_GAME", blob, LOAD_GAME(world, blob))
  /\ UNCHANGED storage

Next ==
  \/ Tick
  \/ PausedTick
  \/ StartAiming
  \/ SetDirection
  \/ LaunchPlayer
  \/ SelectNode
  \/ SetPaused
  \/ StartGame
  \/ CompleteLevelTransition
  \/ UpdateNodeImage
  \/ PurchaseUpgrade
  \/ SaveGame
  \/ LoadGame
  \/ LoadStray

\* ------------------------------------------------- the collision handler
\* The handler on its own: a launch in progress, the player in contact with a
\* node whose cooldown has run out, the hit set of the launch holding that
\* node (the player comes back to it) or not.
Contacts ==
  { [y |-> 5500, vy |-> -1000, id |-> "central_star"],
    [y |-> -11000, vy |-> -1000, id |-> "tutorial_planet"],
    [y |-> 32000, vy |-> 1000, id |-> "asteroid_ring_2"] }

FlightWorld(c, ids) ==
  [initialState EXCEPT
     !.gameStarted = TRUE, !.tutorialStep = 3,
     !.spaceDust = createSpaceDust(DUST_COUNT, DUST_FIELD, DUST_FIELD, 0),
     !.nodes[1].y = c.y, !.nodes[1].vy = c.vy,
     !.projection.playerState = "PROJECTING",
     !.turnHitIds = [isSet |-> TRUE, ids |-> ids]]

FlightWorlds == {FlightWorld(c, ids) : c \in Contacts, ids \in {{}, {"central_star"}, {"tutorial_planet", "asteroid_ring_2"}}}

InitHit ==
  /\ world \in FlightWorlds
  /\ storage = {}
  /\ err = FALSE
  /\ last = [type |-> "INIT", payload |-> NULL, pre |-> initialState, aux |-> NoAux]
  /\ budget = [ticks |-> 0, wait |-> 0, events |-> 0, after |-> 0, reform |-> -1]
  /\ dimensions \in Viewports
  /\ svc = NoCall

NextHit == Tick

SpecHit == InitHit /\ [][NextHit]_vars

\* --------------------------------------------------- saving during a launch
\* The user saves the game while a launch is in progress, the player about to
\* hit a node, and loads what was saved.
MaxSaveEvents == 2

SaveInFlight ==
  /\ Early
  /\ budget.events < MaxSaveEvents
  /\ \E ok \in BOOLEAN :
       /\ Reduce("SAVE_GAME", ok, SAVE_GAME(world, ok), NoAux)
       /\ storage' = IF ok THEN {StoredBlob(world)} ELSE storage
  /\ budget' = [budget EXCEPT !.events = @ + 1, !.reform = -1]

LoadSaved ==
  /\ Early
  /\ budget.events < MaxSaveEvents
  /\ \E blob \in storage : Reduce("LOAD_GAME", blob, LOAD_GAME(world, blob), NoAux)
  /\ budget' = [budget EXCEPT !.events = @ + 1, !.reform = -1]
  /\ UNCHANGED storage

NextSave ==
  \/ Tick
  \/ SaveInFlight
  \/ LoadSaved

SpecSave == InitHit /\ [][NextSave]_vars

Spec == Init /\ [][Next]_vars

\* ------------------------------------------------------------ the aim sweep
\* The aiming phase on its own: the user starts or loads a game, may switch
\* aim assist off in the settings before aiming, starts aiming, lets the aim
\* sweep for up to MaxAimTicks TICKs, switches aim assist back on at any time,
\* and confirms the direction.  With the scan running MaxWait TICKs are enough
\* to see what it finds.
MaxAimTicks == 80
MaxAimEvents == 2

AimTick ==
  /\ ~world.isPaused
  /\ world.projection.playerState = "AIMING_DIRECTION"
  /\ budget.ticks < MaxAimTicks
  /\ world.settings.aimAssist => budget.wait < MaxWait
  /\ \E in \in TickInputs :
       \E r \in {TickRun(world, in)} :
       LET new == IF r.threw THEN world ELSE r.ns
       IN Reduce("TICK", in, new,
                 [threw |-> r.threw, hit |-> r.hit, kind |-> r.kind,
                  walled |-> r.walled, collected |-> r.collected,
                  gained |-> r.gained, popped |-> r.popped,
                  seen |-> Observed(Mutated(world, r))])
  /\ budget' = [budget EXCEPT !.ticks = @ + 1,
                              !.wait = IF world.settings.aimAssist THEN @ + 1 ELSE @]
  /\ UNCHANGED storage

ChangeSetting ==
  /\ InGame
  /\ budget.events < MaxAimEvents
  /\ \E value \in BOOLEAN :
       /\ value # world.settings.aimAssist
       /\ ~value => Early
       /\ Reduce("CHANGE_SETTING", <<"aimAssist", value>>,
                 CHANGE_SETTING(world, "aimAssist", value), NoAux)
  /\ budget' = [budget EXCEPT !.events = @ + 1, !.wait = 0]
  /\ UNCHANGED storage

NextAim ==
  \/ StartGame
  \/ LoadGame
  \/ SelectNode
  \/ ChangeSetting
  \/ StartAiming
  \/ AimTick
  \/ SetDirection

SpecAim == Init /\ [][NextAim]_vars

\* ------------------------------------------------ calls to the service
\* One of the four functions is called.  Without an API key getAiClient
\* returns null and the function returns its default at once; with one the
\* call enters retryWithBackoff.  generateMilestoneVideo is called by the
\* effect of a MilestoneVisual that has just been rendered.
Call ==
  /\ svc.pc = "idle"
  /\ \E fn \in ServiceFns, key \in BOOLEAN, studio \in BOOLEAN :
       LET c == [NoCall EXCEPT !.fn = fn, !.studio = studio,
                                !.visual = IF fn = "generateMilestoneVideo"
                                             THEN MilestoneVisual ELSE Unmounted]
       IN svc' = IF key THEN [c EXCEPT !.pc = "calling"] ELSE Resolved(c, "default")
  /\ UNCHANGED <<world, storage, err, last, budget, dimensions>>

\* a MilestoneVisual whose milestone has no prompt makes no call
RenderWithoutPrompt ==
  /\ svc.pc = "idle"
  /\ svc' = [Resolved(NoCall, "default") EXCEPT !.visual = [MilestoneVisual EXCEPT !.isLoading = FALSE]]
  /\ UNCHANGED <<world, storage, err, last, budget, dimensions>>

\* retryWithBackoff invokes operation(), whose request to the service
\* settles.  A video request that succeeds yields an operation that is done
\* (with or without a video) or still running.
Attempt ==
  /\ svc.pc = "calling"
  /\ LET c == [svc EXCEPT !.attempts = @ + 1]
     IN \/ \E o \in Outcomes : svc' = retryWithBackoff(c, o)
        \/ /\ svc.fn = "generateMilestoneVideo"
           /\ svc' = [c EXCEPT !.pc = "polling"]
  /\ UNCHANGED <<world, storage, err, last, budget, dimensions>>

\* the video operation is not done: after 5000 ms it is asked for again.
\* polls is the parity of the number of polls of this attempt.
Poll ==
  /\ svc.pc = "polling"
  /\ \/ \E o \in Outcomes : svc' = retryWithBackoff([svc EXCEPT !.polls = 0], o)
     \/ svc' = [svc EXCEPT !.polls = 1 - @]
  /\ UNCHANGED <<world, storage, err, last, budget, dimensions>>

\* the backoff timer fires and the loop of retryWithBackoff goes round
Backoff ==
  /\ svc.pc = "backoff"
  /\ svc' = [svc EXCEPT !.pc = "calling"]
  /\ UNCHANGED <<world, storage, err, last, budget, dimensions>>

\* the key selection dialog closes; retryWithBackoff returns the fallback
KeySelected ==
  /\ svc.pc = "prompting"
  /\ svc' = Resolved(svc, "default")
  /\ UNCHANGED <<world, storage, err, last, budget, dimensions>>

\* loadVideo resumes after its await
LoadVideo ==
  /\ svc.pc = "resolved"
  /\ svc.visual.mounted /\ svc.visual.isLoading
  /\ svc' = [svc EXCEPT !.visual.isLoading = FALSE,
                        !.visual.videoUrl = IF svc.value = "result" THEN "url" ELSE NULL]
  /\ UNCHANGED <<world, storage, err, last, budget, dimensions>>

\* "Skip Generation": onComplete removes the component while it is loading
SkipGeneration ==
  /\ svc.visual.mounted /\ svc.visual.isLoading
  /\ svc' = [svc EXCEPT !.visual.mounted = FALSE]
  /\ UNCHANGED <<world, storage, err, last, budget, dimensions>>

NextService ==
  \/ Call
  \/ RenderWithoutPrompt
  \/ Attempt
  \/ Poll
  \/ Backoff
  \/ KeySelected
  \/ LoadVideo
  \/ SkipGeneration

\* Timers fire and every request to the service settles, so a call that can
\* take a step takes one; which answer the service gives is not constrained.
SpecService == Init /\ [][NextService]_vars /\ WF_vars(NextService)

\* ------------------------------------------------------- whole launches
\* A launch followed from LAUNCH_PLAYER to its end, at full power, on either
\* viewport, in the first level and in the levels after it (which begin with
\* the player alone in a smaller world).
MaxFlightTicks == 1000    \* TICKs of one launch that are followed
MaxFlightSpeed == 12000   \* a launch is followed while |vx|, |vy| are no larger (1/100 per tick)
MaxZoom == 2              \* level transitions before the launch

RECURSIVE Levelled(_, _)
Levelled(s, z) ==
  IF z = 0 THEN s ELSE Levelled(COMPLETE_LEVEL_TRANSITION(s, z), z - 1)

\* aim angles of the launches: towards +x, towards -y (from the player's
\* start through the origin), and between the two
Headings == {0, 4712, 5498}

LaunchedWorld(z, angle) ==
  LAUNCH_PLAYER([Levelled(START_GAME(initialState, "img_player", 0), z) EXCEPT
                   !.projection.playerState = "AIMING_POWER",
                   !.projection.aimAngle = angle,
                   !.projection.power = 100])

InitFlight ==
  /\ world \in {LaunchedWorld(z, a) : z \in 0..MaxZoom, a \in Headings}
  /\ storage = {}
  /\ err = FALSE
  /\ last = [type |-> "INIT", payload |-> NULL, pre |-> initialState, aux |-> NoAux]
  /\ budget = [ticks |-> 0, wait |-> 0, events |-> 0, after |-> 0, reform |-> -1]
  /\ dimensions \in Viewports
  /\ svc = NoCall

\* the larger of |vx| and |vy| of the first node, the player
PlayerPace(s) == Max2(Abs(s.nodes[1].vx), Abs(s.nodes[1].vy))

\* the launch is in progress and is still followed
InFlight ==
  /\ ~err /\ Settled
  /\ world.projection.playerState \in {"PROJECTING", "REFORMING"}
  /\ budget.ticks < MaxFlightTicks
  /\ PlayerPace(world) <= MaxFlightSpeed

\* the game loop dispatches an unpaused TICK while the launch is in progress
FlightTick ==
  /\ InFlight
  /\ \E in \in {[width |-> dimensions.width, height |-> dimensions.height, now |-> 0,
                 orbStars |-> {}, seed |-> budget.ticks + 1]} :
       \E r \in {TickRun(world, in)} :
       LET new == IF r.threw THEN world ELSE r.ns
       IN Reduce("TICK", in, new,
                 [threw |-> r.threw, hit |-> r.hit, kind |-> r.kind,
                  walled |-> r.walled, collected |-> r.collected,
                  gained |-> r.gained, popped |-> r.popped,
                  seen |-> Observed(Mutated(world, r))])
  /\ budget' = [budget EXCEPT !.ticks = @ + 1]
  /\ UNCHANGED storage

NextFlight == FlightTick

\* requestAnimationFrame keeps the game loop running: while a launch is in
\* flight another frame comes, and every frame dispatches a TICK
Frame == InFlight /\ budget' = [budget EXCEPT !.ticks = @ + 1]

SpecFlight == InitFlight /\ [][NextFlight]_vars /\ WF_budget(Frame)

\* ---------------------------------------------------------------- lore
\* The player asks for the lore of a node: SET_LORE_LOADING is dispatched and
\* getGeminiLoreForNode is called; when its promise resolves SET_LORE_RESULT
\* is dispatched with the node of that call and the text.  svc.pending holds
\* the calls not yet answered, svc.asked counts the requests, svc.current is
\* the request the tooltip is waiting for or showing (0 for none).
MaxLoreRequests == 3
LoreNodes == {"tutorial_planet", "central_star"}

\* one reducer call of the lore cases, whatever the call before it returned
ReduceLore(type, payload, new, calls) ==
  /\ ~err
  /\ world' = new
  /\ last' = [type |-> type, payload |-> payload, pre |-> world, aux |-> NoAux]
  /\ svc' = calls
  /\ UNCHANGED <<err, storage, budget, dimensions>>

AskLore ==
  /\ InGame
  /\ svc.asked < MaxLoreRequests
  /\ \E nodeId \in LoreNodes :
       ReduceLore("SET_LORE_LOADING", nodeId, SET_LORE_LOADING(world, nodeId),
                  [svc EXCEPT !.pending = @ \cup {[nodeId |-> nodeId, k |-> svc.asked + 1]},
                              !.asked = @ + 1,
                              !.current = svc.asked + 1])

LoreArrives ==
  \E call \in svc.pending :
    ReduceLore("SET_LORE_RESULT", call, SET_LORE_RESULT(world, call.nodeId, call),
               [svc EXCEPT !.pending = @ \ {call}])

ClearLore ==
  /\ world.loreState.nodeId # NULL
  /\ ReduceLore("CLEAR_LORE", NULL, CLEAR_LORE(world), [svc EXCEPT !.current = 0])

NextLore ==
  \/ StartGame
  \/ StartAiming
  \/ SetDirection
  \/ LaunchPlayer
  \/ AskLore
  \/ LoreArrives
  \/ ClearLore

SpecLore == Init /\ [][NextLore]_vars

\* ------------------------------------------------------------- properties
\* The properties read the last reducer call from `last`: its type, its
\* payload, the World it was given (Pre) and what the TICK recorded.
Pre == last.pre
Ids(nodes) == {nodes[i].id : i \in DOMAIN nodes}
NodeById(nodes, id) == nodes[NodeIndexById(nodes, id)]
PlayerOf(s) == s.nodes[PlayerIndex(s.nodes)]

\* the last call was an unpaused TICK that returned a World
Ran == last.type = "TICK" /\ ~Pre.isPaused /\ ~last.aux.threw
Flying == Ran /\ Pre.projection.playerState = "PROJECTING"

\* indices of the nodes the player overlaps in World s
OverlappedIn(s) ==
  {i \in DOMAIN s.nodes : s.nodes[i].id # PlayerOf(s).id /\ Overlaps(PlayerOf(s), s.nodes[i])}

\* what the last TICK added to a resource beyond the passive income and the
\* orbs collected
EnergyGain ==
  world.energy - Pre.energy - last.aux.gained
  - SatelliteIncome(world.satellites, "any")
  - STAR_ENERGY_RATE * CountType(world.nodes, "star")
KnowledgeGain ==
  world.knowledge - Pre.knowledge - BASE_KNOWLEDGE_RATE - DUST_REWARD * last.aux.popped
BiomassGain == world.biomass - Pre.biomass - SatelliteIncome(world.satellites, "life_seed")

\* the node with this id differs between Pre and world in integrity, cooldown
\* or membership
Changed(id) ==
  \/ id \notin Ids(world.nodes)
  \/ NodeById(world.nodes, id).currentIntegrity # NodeById(Pre.nodes, id).currentIntegrity
  \/ NodeById(world.nodes, id).integrityCooldown # NodeById(Pre.nodes, id).integrityCooldown

FiveEdges ==
  { <<"IDLE", "START_AIMING", "AIMING_DIRECTION">>,
    <<"AIMING_DIRECTION", "SET_DIRECTION", "AIMING_POWER">>,
    <<"AIMING_POWER", "LAUNCH_PLAYER", "PROJECTING">>,
    <<"PROJECTING", "TICK", "REFORMING">>,
    <<"REFORMING", "TICK", "IDLE">> }

OnFiveEdges ==
  \/ world.projection.playerState = Pre.projection.playerState
  \/ <<Pre.projection.playerState, last.type, world.projection.playerState>> \in FiveEdges

\* C1 as stated: whatever the action, playerState either stays or moves along
\* one of the five edges IDLE -> AIMING_DIRECTION (START_AIMING),
\* AIMING_DIRECTION -> AIMING_POWER (SET_DIRECTION), AIMING_POWER -> PROJECTING
\* (LAUNCH_PLAYER), PROJECTING -> REFORMING (TICK), REFORMING -> IDLE (TICK).
C1_FiveEdgesOnly == last.type # "INIT" => OnFiveEdges

\* C1 amended: every action other than START_GAME and LOAD_GAME keeps
\* playerState or moves it along one of the five edges; START_GAME puts it to
\* IDLE from any state, LOAD_GAME puts it to the playerState of the loaded World
\* (a load that fails returns the World it was given).
C1_FiveEdgesButStartAndLoad ==
  /\ last.type \notin {"INIT", "START_GAME", "LOAD_GAME"} => OnFiveEdges
  /\ last.type = "START_GAME" => world.projection = initialProjectionState
  /\ last.type = "LOAD_GAME" =>
       IF "projection" \in DOMAIN last.payload
       THEN world.projection = last.payload.projection
       ELSE world = Pre

C1_Witness ==
  /\ last.type = "LOAD_GAME"
  /\ Pre.projection.playerState = "IDLE"
  /\ world.projection.playerState = "REFORMING"

\* C2: START_AIMING outside IDLE, SET_DIRECTION outside AIMING_DIRECTION and
\* LAUNCH_PLAYER outside AIMING_POWER return the World they were given, and the
\* reducer does not throw.
C2_WrongStateIsNoOp ==
  /\ (last.type = "START_AIMING" /\ Pre.projection.playerState # "IDLE")
       => (world = Pre /\ ~err)
  /\ (last.type = "SET_DIRECTION" /\ Pre.projection.playerState # "AIMING_DIRECTION")
       => (world = Pre /\ ~err)
  /\ (last.type = "LAUNCH_PLAYER" /\ Pre.projection.playerState # "AIMING_POWER")
       => (world = Pre /\ ~err)

C2_Witness ==
  /\ last.type = "LAUNCH_PLAYER"
  /\ Pre.projection.playerState = "PROJECTING"

\* C3: in every reachable state every node has
\* 0 <= currentIntegrity <= maxIntegrity.
C3_IntegrityInRange ==
  \A i \in DOMAIN world.nodes :
    /\ 0 <= world.nodes[i].currentIntegrity
    /\ world.nodes[i].currentIntegrity <= world.nodes[i].maxIntegrity

C3_Witness ==
  /\ Ran
  /\ last.aux.hit \in Ids(world.nodes)
  /\ NodeById(world.nodes, last.aux.hit).currentIntegrity
       < NodeById(Pre.nodes, last.aux.hit).currentIntegrity

\* C4: after every TICK no node other than an asteroid has currentIntegrity 0;
\* a planet-like node a hit takes to 0 is gone from the registry in that TICK,
\* a star a hit takes to 0 is back at maxIntegrity with a positive cooldown.
C4_NoDeadNodeAfterTick ==
  last.type = "TICK" =>
    /\ \A i \in DOMAIN world.nodes :
         world.nodes[i].type # "asteroid" => world.nodes[i].currentIntegrity # 0
    /\ \A i \in DOMAIN Pre.nodes :
         (/\ Ran
          /\ last.aux.hit = Pre.nodes[i].id
          /\ Pre.nodes[i].type # "asteroid"
          /\ Pre.nodes[i].currentIntegrity = 1)
         => /\ Pre.nodes[i].type \in PlanetLike => Pre.nodes[i].id \notin Ids(world.nodes)
            /\ Pre.nodes[i].type = "star" =>
                 /\ Pre.nodes[i].id \in Ids(world.nodes)
                 /\ NodeById(world.nodes, Pre.nodes[i].id).currentIntegrity
                      = Pre.nodes[i].maxIntegrity
                 /\ NodeById(world.nodes, Pre.nodes[i].id).integrityCooldown > 0

C4_Witness ==
  /\ Ran
  /\ last.aux.hit \in Ids(Pre.nodes)
  /\ NodeById(Pre.nodes, last.aux.hit).type \in PlanetLike
  /\ NodeById(Pre.nodes, last.aux.hit).currentIntegrity = 1

\* C5 as stated: on every unpaused TICK the integrityCooldown of a node that is
\* in cooldown is one less in the World returned than in the World given.
C5_CooldownCountsDown ==
  Ran =>
    \A i \in DOMAIN Pre.nodes :
      (Pre.nodes[i].integrityCooldown > 0 /\ Pre.nodes[i].id \in Ids(world.nodes))
      => NodeById(world.nodes, Pre.nodes[i].id).integrityCooldown
           = Pre.nodes[i].integrityCooldown - 1

\* C6: a PROJECTING tick in which the player overlaps a node whose cooldown is
\* positive leaves that node's integrity and cooldown as they were, does not
\* run its handler (no bounce off it, no reward for it, its id not added to the
\* hit set); when it is the node the loop stops at, nothing is hit at all: the
\* velocity only decays by friction, the resources get the passive income only
\* and the hit set is unchanged.
C6_CooldownShields ==
  Flying =>
    \A i \in OverlappedIn(Pre) :
      Pre.nodes[i].integrityCooldown > 0 =>
        /\ ~Changed(Pre.nodes[i].id)
        /\ last.aux.hit # Pre.nodes[i].id
        /\ world.turnHitIds.ids \ Pre.turnHitIds.ids # {Pre.nodes[i].id}
        /\ i = FirstOverlap(Pre.nodes, PlayerIndex(Pre.nodes)) =>
             /\ last.aux.hit = NULL
             /\ world.turnHitIds = Pre.turnHitIds
             /\ EnergyGain = 0 /\ KnowledgeGain = 0 /\ BiomassGain = 0
             /\ (world.projection.playerState = "PROJECTING" /\ ~last.aux.walled) =>
                  /\ PlayerOf(world).vx = RDiv(PlayerOf(Pre).vx * PROJECTILE_FRICTION, 100)
                  /\ PlayerOf(world).vy = RDiv(PlayerOf(Pre).vy * PROJECTILE_FRICTION, 100)

C6_Witness ==
  /\ Flying
  /\ \E i \in OverlappedIn(Pre) :
       /\ Pre.nodes[i].integrityCooldown > 0
       /\ i = FirstOverlap(Pre.nodes, PlayerIndex(Pre.nodes))
  /\ world.projection.playerState = "PROJECTING"
  /\ ~last.aux.walled

\* C7: one TICK resolves at most one node collision: at most one node differs
\* in integrity, cooldown or membership, no node is added, and at most one
\* reward is paid, even when the player overlaps several nodes.
C7_OneCollisionPerTick ==
  Ran =>
    /\ Ids(world.nodes) \subseteq Ids(Pre.nodes)
    /\ Cardinality({id \in Ids(Pre.nodes) : Changed(id)}) <= 1
    /\ EnergyGain \in {0, 1000, 2000, SUPERNOVA_ENERGY}
    /\ KnowledgeGain \in {0, 100, 200}
    /\ BiomassGain \in {0, 500, 1000, ASSIMILATION_BIOMASS}
    /\ Cardinality({r \in {"energy", "knowledge", "biomass"} :
                      (IF r = "energy" THEN EnergyGain
                       ELSE IF r = "knowledge" THEN KnowledgeGain ELSE BiomassGain) # 0}) <= 1
    /\ Len(world.satellites) <= Len(Pre.satellites) + 1

C7_Witness ==
  /\ Flying
  /\ Cardinality({i \in OverlappedIn(Pre) : Pre.nodes[i].integrityCooldown <= 0}) >= 2
  /\ last.aux.hit # NULL

\* C8 as stated: the node a TICK resolves is the first node in registry order
\* that overlaps the player and whose cooldown has expired; an overlapping node
\* in cooldown does not keep a later overlapping node from being hit.
C8_FirstExpiredOverlapIsHit ==
  Flying =>
    LET ready == {i \in OverlappedIn(Pre) : Pre.nodes[i].integrityCooldown <= 0}
    IN IF ready = {} THEN last.aux.hit = NULL
       ELSE last.aux.hit = Pre.nodes[CHOOSE i \in ready : \A j \in ready : i <= j].id

\* C9: the supernova of a star pays 1000 energy, puts the star back to
\* maxIntegrity with cooldown 600, multiplies the player's velocity after the
\* bounce by 1.5 and adds 15 orbs of value 50 at the star; the star stays in
\* the registry, no standard reward is paid and the hit set is unchanged.
C9_Supernova ==
  (Ran /\ last.aux.kind = "supernova") =>
    /\ last.aux.hit \in Ids(world.nodes)
    /\ NodeById(Pre.nodes, last.aux.hit).type = "star"
    /\ NodeById(world.nodes, last.aux.hit).currentIntegrity
         = NodeById(Pre.nodes, last.aux.hit).maxIntegrity
    /\ NodeById(world.nodes, last.aux.hit).integrityCooldown = SUPERNOVA_COOLDOWN
    /\ Ids(world.nodes) = Ids(Pre.nodes)
    /\ EnergyGain = SUPERNOVA_ENERGY /\ KnowledgeGain = 0 /\ BiomassGain = 0
    /\ world.turnHitIds = Pre.turnHitIds
    /\ Len(world.energyOrbs) + last.aux.collected
         = Len(Pre.energyOrbs) + ERUPTION_ORBS + Cardinality(last.payload.orbStars)
    /\ last.aux.collected = 0 =>
         \A k \in 1..ERUPTION_ORBS :
           /\ world.energyOrbs[Len(Pre.energyOrbs) + k].value = ERUPTION_ORB_VALUE
           /\ world.energyOrbs[Len(Pre.energyOrbs) + k].x = NodeById(Pre.nodes, last.aux.hit).x
           /\ world.energyOrbs[Len(Pre.energyOrbs) + k].y = NodeById(Pre.nodes, last.aux.hit).y
    /\ ~last.aux.walled =>
         LET b == Bounce(PlayerOf(Pre), NodeById(Pre.nodes, last.aux.hit))
         IN /\ PlayerOf(world).vx = RDiv(RDiv(b.vx * 150, 100) * PROJECTILE_FRICTION, 100)
            /\ PlayerOf(world).vy = RDiv(RDiv(b.vy * 150, 100) * PROJECTILE_FRICTION, 100)

C9_Witness ==
  /\ Ran
  /\ last.aux.kind = "supernova"
  /\ last.aux.collected = 0
  /\ ~last.aux.walled
  /\ PlayerOf(world).vy # 0

\* C10: the assimilation of a planet-like node removes it from the registry,
\* appends exactly one satellite that carries its id, type and imageUrl and
\* whose orbitRadius is 60 + 20 * (satellites before), and pays 200 biomass.
C10_Assimilation ==
  (Ran /\ last.aux.kind = "assimilation") =>
    /\ last.aux.hit \in Ids(Pre.nodes)
    /\ last.aux.hit \notin Ids(world.nodes)
    /\ Ids(world.nodes) = Ids(Pre.nodes) \ {last.aux.hit}
    /\ Len(world.satellites) = Len(Pre.satellites) + 1
    /\ SubSeq(world.satellites, 1, Len(Pre.satellites)) = Pre.satellites
    /\ world.satellites[Len(world.satellites)] =
         [id |-> last.aux.hit,
          type |-> NodeById(Pre.nodes, last.aux.hit).type,
          imageUrl |-> NodeById(Pre.nodes, last.aux.hit).imageUrl,
          orbitRadius |-> 60 + 20 * Len(Pre.satellites)]
    /\ BiomassGain = ASSIMILATION_BIOMASS
    /\ EnergyGain = 0 /\ KnowledgeGain = 0

C10_Witness ==
  /\ Ran
  /\ last.aux.kind = "assimilation"
  /\ Len(Pre.satellites) = 1
  /\ world.satellites[2].orbitRadius = 80

SatIds(s) == {s.satellites[k].id : k \in DOMAIN s.satellites}

StandardStruck ==
  /\ Ran
  /\ last.aux.hit \in Ids(Pre.nodes)
  /\ \/ NodeById(Pre.nodes, last.aux.hit).type = "asteroid"
     \/ NodeById(Pre.nodes, last.aux.hit).currentIntegrity > 1

C14_Reform ==
  /\ Flying =>
       /\ world.projection.playerState \in {"PROJECTING", "REFORMING"}
       /\ last.aux.hit = NULL =>
            (world.projection.playerState = "REFORMING"
               <=> Hypot(PlayerOf(Pre).vx, PlayerOf(Pre).vy) < REFORM_SPEED)
       /\ world.projection.playerState = "REFORMING" =>
            /\ PlayerOf(world).vx = 0 /\ PlayerOf(world).vy = 0
            /\ world.projection.reformTimer = REFORM_DURATION
  /\ (Ran /\ Pre.projection.playerState = "REFORMING") =>
       /\ world.projection.reformTimer = Pre.projection.reformTimer - 1
       /\ world.projection.playerState =
            (IF world.projection.reformTimer <= 0 THEN "IDLE" ELSE "REFORMING")
  /\ (world.projection.playerState = "REFORMING" /\ budget.reform >= 0) =>
       /\ world.projection.reformTimer = REFORM_DURATION - budget.reform
       /\ budget.reform < REFORM_DURATION
  /\ (/\ Ran
      /\ Pre.projection.playerState = "REFORMING"
      /\ world.projection.playerState = "IDLE"
      /\ budget.reform >= 0) => budget.reform = REFORM_DURATION

C14_Witness ==
  /\ Ran
  /\ Pre.projection.playerState = "REFORMING"
  /\ world.projection.playerState = "IDLE"
  /\ budget.reform = REFORM_DURATION

\* C15: a TICK received while isPaused returns the World it was given, with
\* its projection, nodes, resources, effects and timers as they were, and that
\* World is again a paused one, so that any number of paused TICKs in a row
\* leave it as it was.
C15_PausedTickIsNoOp ==
  (last.type = "TICK" /\ Pre.isPaused) => (world = Pre /\ world.isPaused /\ ~err)

C15_Witness ==
  /\ last.type = "TICK"
  /\ Pre.isPaused
  /\ Pre.projection.playerState = "REFORMING"
  /\ Pre.projection.reformTimer > 0
  /\ world.projection.reformTimer = Pre.projection.reformTimer

\* the ids of the dust particles of World s
DustIds(s) == {d.id : d \in Range(s.spaceDust)}

\* C19: in a TICK that starts in another state than PROJECTING no node's
\* currentIntegrity changes, no node leaves the registry, no satellite is
\* made, no dust particle is consumed (the particles are the same ones and
\* nothing is paid for them) and the hit set is as it was, also when the
\* player overlaps a node or a dust particle.
C19_ResolverOnlyWhileProjecting ==
  (Ran /\ Pre.projection.playerState # "PROJECTING") =>
    /\ last.aux.hit = NULL
    /\ last.aux.popped = 0
    /\ Len(world.nodes) = Len(Pre.nodes)
    /\ \A i \in DOMAIN Pre.nodes :
         /\ world.nodes[i].id = Pre.nodes[i].id
         /\ world.nodes[i].currentIntegrity = Pre.nodes[i].currentIntegrity
    /\ world.satellites = Pre.satellites
    /\ Len(world.spaceDust) = Len(Pre.spaceDust)
    /\ DustIds(world) = DustIds(Pre)
    /\ world.knowledge = Pre.knowledge + BASE_KNOWLEDGE_RATE
    /\ world.turnHitIds = Pre.turnHitIds

C19_Witness ==
  /\ Ran
  /\ Pre.projection.playerState # "PROJECTING"
  /\ FirstOverlap(Pre.nodes, PlayerIndex(Pre.nodes)) # 0
  /\ \E d \in Range(Pre.spaceDust) : InDustReach(PlayerOf(Pre), d)
  /\ world.spaceDust # Pre.spaceDust

\* the last call was an unpaused TICK with the player in IDLE before and after
\* it and nothing else going on: no effects, orbs, trail or satellites in the
\* World it was given, no orb thrown out by a star in it
QuietIdleTick ==
  /\ Ran
  /\ Pre.projection.playerState = "IDLE"
  /\ world.projection.playerState = "IDLE"
  /\ Pre.floatingTexts = <<>> /\ Pre.shockwaves = <<>> /\ Pre.visualEffects = <<>>
  /\ Pre.energyOrbs = <<>> /\ Pre.projectileTrailParticles = <<>>
  /\ Pre.satellites = <<>>
  /\ last.payload.orbStars = {}

\* what a quiet TICK does to the dust and the resources: every particle moves
\* by its own velocity and keeps it, knowledge grows by 0.1 and energy by 0.5
\* per star, biomass stays
DustAndAccrual ==
  /\ Len(world.spaceDust) = Len(Pre.spaceDust)
  /\ \A i \in DOMAIN Pre.spaceDust :
       world.spaceDust[i] = [Pre.spaceDust[i] EXCEPT !.x = @ + Pre.spaceDust[i].vx,
                                                     !.y = @ + Pre.spaceDust[i].vy]
  /\ world.knowledge = Pre.knowledge + BASE_KNOWLEDGE_RATE
  /\ world.energy = Pre.energy + STAR_ENERGY_RATE * CountType(Pre.nodes, "star")
  /\ world.biomass = Pre.biomass

\* C20 as stated: a quiet IDLE TICK leaves every entity's position as it was,
\* the dust's excepted, and changes the resources by the passive accrual only.
C20_QuietTickMovesOnlyDust ==
  QuietIdleTick =>
    /\ DustAndAccrual
    /\ \A i \in DOMAIN Pre.nodes :
         world.nodes[i].x = Pre.nodes[i].x /\ world.nodes[i].y = Pre.nodes[i].y

\* C20, amended: a quiet IDLE TICK leaves the player where it is (when it is
\* inside the world boundary) with the velocity it has, moves every dust
\* particle by its own velocity, and changes the resources by the passive
\* accrual only, the same in every such TICK; the other nodes stay in the
\* registry with their integrity, but the node physics moves them.
C20_QuietTick ==
  QuietIdleTick =>
    /\ DustAndAccrual
    /\ Len(world.nodes) = Len(Pre.nodes)
    /\ \A i \in DOMAIN Pre.nodes :
         /\ world.nodes[i].id = Pre.nodes[i].id
         /\ world.nodes[i].currentIntegrity = Pre.nodes[i].currentIntegrity
    /\ ~OutOfBounds(PlayerOf(Pre), worldRadius(Pre, last.payload)) =>
         PlayerOf(world) = PlayerOf(Pre)

C20_Witness ==
  /\ QuietIdleTick
  /\ world.spaceDust # Pre.spaceDust
  /\ PlayerOf(world) = PlayerOf(Pre)
  /\ \E i \in DOMAIN Pre.nodes : world.nodes[i].x # Pre.nodes[i].x

\* C18 as stated: a TICK that starts in IDLE, AIMING_DIRECTION, AIMING_POWER
\* or REFORMING leaves the player's x, y, vx and vy as they were, whatever the
\* size of the viewport.
C18_PlayerStillUnlessProjecting ==
  (Ran /\ Pre.projection.playerState # "PROJECTING") =>
    /\ PlayerOf(world).x = PlayerOf(Pre).x /\ PlayerOf(world).y = PlayerOf(Pre).y
    /\ PlayerOf(world).vx = PlayerOf(Pre).vx /\ PlayerOf(world).vy = PlayerOf(Pre).vy

\* C18, amended: a TICK that starts in another state than PROJECTING does not
\* integrate the player: inside the world boundary its x, y, vx and vy stay as
\* they were; a player beyond the boundary (the world of a small viewport, or
\* of a higher zoom level) is put onto it and reflected in every state.
C18_PlayerHeldByBoundaryOnly ==
  (Ran /\ Pre.projection.playerState # "PROJECTING") =>
    LET wr == worldRadius(Pre, last.payload)
        p == PlayerOf(Pre)
        q == PlayerOf(world)
    IN IF OutOfBounds(p, wr)
       THEN /\ Abs(Hypot(q.x, q.y) - (wr - q.radius)) <= 2
            /\ q = Sidewall(p, wr)
            /\ last.aux.walled
       ELSE q = p /\ ~last.aux.walled

C18_Witness ==
  /\ Ran
  /\ Pre.projection.playerState = "IDLE"
  /\ OutOfBounds(PlayerOf(Pre), worldRadius(Pre, last.payload))
  /\ PlayerOf(world).y < PlayerOf(Pre).y
  /\ ~OutOfBounds(PlayerOf(world), worldRadius(Pre, last.payload) + 2)

\* the World the last TICK was given, as that call left it
GivenAfter ==
  [Pre EXCEPT !.projection = last.aux.seen.projection,
              !.turnHitIds = last.aux.seen.turnHitIds,
              !.satellites = last.aux.seen.satellites,
              !.energyOrbs = last.aux.seen.energyOrbs,
              !.notifications = last.aux.seen.notifications,
              !.nodes = [i \in DOMAIN Pre.nodes |->
                           [Pre.nodes[i] EXCEPT !.integrityCooldown = last.aux.seen.cooldowns[i]]]]

\* C16 as stated: a TICK leaves the World it was given as it was (projection,
\* the nodes' integrityCooldown, turnHitIds, satellites, energyOrbs,
\* notifications), and the same TICK evaluated once more on that World returns
\* the same cooldowns, projection and hit set as the first time.
C16_TickLeavesInputAlone ==
  Ran =>
    /\ last.aux.seen = Observed(Pre)
    /\ \A r \in {TickRun(GivenAfter, last.payload)} :
         /\ ~r.threw
         /\ r.ns.projection = world.projection
         /\ r.ns.turnHitIds = world.turnHitIds
         /\ Observed(r.ns).cooldowns = Observed(world).cooldowns

\* C17 as stated: the stages of a TICK run in the order projection state
\* machine, physics, collision, spawning, effects decay, accrual.  Two things
\* follow that the World returned shows: (1) the collisions are found at the
\* positions the TICK's own integration has produced, so when the player ends a
\* PROJECTING tick overlapping a node, the first such node has been looked at:
\* it is in cooldown (it was, or it has just been hit); (2) an effect spawned
\* by the physics of the TICK, the spark of a bounce off the boundary, is in
\* the effects the TICK returns, the decay having come after it.
C17_StagesInOrder ==
  /\ (Flying /\ last.aux.kind # "assimilation") =>
       LET k == FirstOverlap(world.nodes, PlayerIndex(world.nodes))
       IN k # 0 => world.nodes[k].integrityCooldown > 0
  /\ (Ran /\ last.aux.walled) =>
       \E e \in Range(world.visualEffects) :
         e.type = "spark" /\ e.x = PlayerOf(world).x /\ e.y = PlayerOf(world).y

\* the unit vectors (1/1000) towards two points agree to the last digit
SameBearing(x1, y1, x2, y2) ==
  /\ Abs(UnitVec(x1, y1).c - UnitVec(x2, y2).c) <= 1
  /\ Abs(UnitVec(x1, y1).s - UnitVec(x2, y2).s) <= 1

\* what the 1/1000 resolution of the unit vector leaves open at distance d
Slack(d) == d \div 1000 + 2

\* where node n of the World given has moved to before the boundary check,
\* when that can be told from the World: a non-player node (the attraction is
\* below the resolution), a resting player, a flying player that hit nothing
MovedTo(n) ==
  IF IsPlayer(n) /\ Pre.projection.playerState # "PROJECTING"
  THEN [x |-> n.x, y |-> n.y]
  ELSE [x |-> n.x + n.vx, y |-> n.y + n.vy]

Traceable(n) ==
  IsPlayer(n) =>
    \/ Pre.projection.playerState # "PROJECTING"
    \/ world.projection.playerState = "PROJECTING" /\ last.aux.hit = NULL

\* C21: after an unpaused TICK every node is within worldRadius - radius of
\* the origin, worldRadius being 1.5 * min(width, height) / (zoomLevel + 1) of
\* that TICK, and a node that had moved beyond that distance is at that
\* distance, on the bearing it had there.
C21_NodesInsideBoundary ==
  Ran =>
    \A i \in DOMAIN world.nodes :
      LET n == world.nodes[i]
          lim == RDiv(Min2(last.payload.width, last.payload.height) * 150,
                      Pre.zoomLevel + 1) - n.radius
      IN /\ Hypot(n.x, n.y) <= lim + Slack(lim)
         /\ (n.id \in Ids(Pre.nodes) /\ Traceable(NodeById(Pre.nodes, n.id))) =>
              LET m == MovedTo(NodeById(Pre.nodes, n.id))
              IN IF Hypot(m.x, m.y) > lim
                 THEN /\ Abs(Hypot(n.x, n.y) - lim) <= Slack(lim)
                      /\ SameBearing(n.x, n.y, m.x, m.y)
                 ELSE n.x = m.x /\ n.y = m.y

C21_Witness ==
  /\ Ran
  /\ \E i \in DOMAIN Pre.nodes :
       /\ ~IsPlayer(Pre.nodes[i])
       /\ Pre.nodes[i].x # 0 /\ Pre.nodes[i].y # 0
       /\ OutOfBounds(Pre.nodes[i], worldRadius(Pre, last.payload))
       /\ ~OutOfBounds(world.nodes[i], worldRadius(Pre, last.payload)
                                        + Slack(worldRadius(Pre, last.payload)))

\* the velocity node n of the World given has before the boundary check (see
\* MovedTo): damped by 0.99, but for a player that is not in flight
VelocityAtWall(n) ==
  IF IsPlayer(n) /\ Pre.projection.playerState # "PROJECTING"
  THEN [vx |-> n.vx, vy |-> n.vy]
  ELSE [vx |-> RDiv(n.vx * 99, 100), vy |-> RDiv(n.vy * 99, 100)]

\* the nodes of the World given that the last TICK reflected at the boundary
Reflected ==
  {i \in DOMAIN Pre.nodes :
     /\ Ran
     /\ Pre.nodes[i].id \in Ids(world.nodes)
     /\ Traceable(Pre.nodes[i])
     /\ OutOfBounds([Pre.nodes[i] EXCEPT !.x = MovedTo(Pre.nodes[i]).x,
                                         !.y = MovedTo(Pre.nodes[i]).y],
                    worldRadius(Pre, last.payload))}

\* components of velocity (vx, vy) along and across the bearing of (x, y)
Along(vx, vy, x, y) == RDiv(vx * UnitVec(x, y).c + vy * UnitVec(x, y).s, 1000)
Across(vx, vy, x, y) == RDiv(vy * UnitVec(x, y).c - vx * UnitVec(x, y).s, 1000)

\* rounding allowed on a reflected velocity, in 1/100 units per tick
VelocitySlack == 15

\* C22 as stated: a node reflected at the boundary leaves with the speed it
\* came with times its restitution, 1.2 for the player (faster than before)
\* and 0.5 for any other node (slower than before), whatever the direction it
\* came from, and its velocity points into the circle.
C22_ReflectionScalesSpeed ==
  \A i \in Reflected :
    LET vin == VelocityAtWall(Pre.nodes[i])
        out == NodeById(world.nodes, Pre.nodes[i].id)
        sIn == Hypot(vin.vx, vin.vy)
        sOut == Hypot(out.vx, out.vy)
    IN sIn > VelocitySlack =>
         /\ IF IsPlayer(out)
            THEN Abs(10 * sOut - 12 * sIn) <= 10 * VelocitySlack /\ sOut > sIn
            ELSE Abs(10 * sOut - 5 * sIn) <= 10 * VelocitySlack /\ sOut < sIn
         /\ Along(out.vx, out.vy, out.x, out.y) < 0

\* C22, amended: the player's velocity component along the boundary normal is
\* turned round and multiplied by 1.2 and the component across it is kept, so
\* the speed grows by a factor between 1 and 1.2 (1.2 head-on); the velocity
\* of any other node is multiplied by -0.5, so its speed halves; a node that
\* was moving outwards moves inwards afterwards.
C22_Reflection ==
  \A i \in Reflected :
    LET vin == VelocityAtWall(Pre.nodes[i])
        m == MovedTo(Pre.nodes[i])
        out == NodeById(world.nodes, Pre.nodes[i].id)
        sIn == Hypot(vin.vx, vin.vy)
        sOut == Hypot(out.vx, out.vy)
        nIn == Along(vin.vx, vin.vy, m.x, m.y)
        nOut == Along(out.vx, out.vy, m.x, m.y)
    IN /\ IF IsPlayer(out)
          THEN /\ Abs(10 * nOut + 12 * nIn) <= 10 * VelocitySlack
               /\ Abs(Across(out.vx, out.vy, m.x, m.y) - Across(vin.vx, vin.vy, m.x, m.y))
                    <= VelocitySlack
               /\ sOut >= sIn - VelocitySlack
               /\ 10 * sOut <= 12 * sIn + 10 * VelocitySlack
          ELSE /\ out.vx = RDiv(vin.vx * (-5), 10) /\ out.vy = RDiv(vin.vy * (-5), 10)
               /\ Abs(2 * sOut - sIn) <= 2
       /\ nIn > VelocitySlack => nOut < 0

\* an oblique bounce of the player and a bounce of another node
C22_Witness ==
  \E i \in Reflected :
    LET vin == VelocityAtWall(Pre.nodes[i])
        m == MovedTo(Pre.nodes[i])
    IN /\ IsPlayer(Pre.nodes[i])
       /\ Along(vin.vx, vin.vy, m.x, m.y) > 100
       /\ Abs(Across(vin.vx, vin.vy, m.x, m.y)) > 100

\* rounding allowed on a velocity after a bounce, in 1/100 units per tick: the
\* sines and bearings of the model are good to about 1/100 of the speed
BounceSlack == 100

\* the last TICK resolved a standard hit or a combo, and the player flew on
\* without touching the boundary
Bounced ==
  /\ Ran
  /\ last.aux.kind \in {"standard", "combo"}
  /\ world.projection.playerState = "PROJECTING"
  /\ ~last.aux.walled

\* C23 as stated: after a resolved hit the player's velocity is the velocity
\* it had, reflected about the collision normal (the component along the line
\* between the centres reversed, the component across it kept) and multiplied
\* by the bounce factor of the node's type, so that the speed is the speed it
\* had times that factor (the friction of the same TICK, 0.99, comes on top).
C23_BounceReflects ==
  Bounced =>
    LET p == PlayerOf(Pre)
        n == NodeById(Pre.nodes, last.aux.hit)
        f == BounceFactor(n.type) * PROJECTILE_FRICTION
        out == PlayerOf(world)
    IN /\ Abs(10000 * Along(out.vx, out.vy, p.x - n.x, p.y - n.y)
                + f * Along(p.vx, p.vy, p.x - n.x, p.y - n.y)) <= 10000 * BounceSlack
       /\ Abs(10000 * Across(out.vx, out.vy, p.x - n.x, p.y - n.y)
                - f * Across(p.vx, p.vy, p.x - n.x, p.y - n.y)) <= 10000 * BounceSlack
       /\ Abs(10000 * Hypot(out.vx, out.vy) - f * Hypot(p.vx, p.vy)) <= 10000 * BounceSlack

\* knowledge the last TICK added beyond what dust and hits paid, in 1/1000 of a
\* resource point
PassiveKnowledge ==
  100 * (world.knowledge - Pre.knowledge - DUST_REWARD * last.aux.popped)

\* C24 as stated: an unpaused TICK adds the base rate 0.1 to knowledge, times
\* 1.25 when karma is above HARMONY_THRESHOLD (50) and times 1 otherwise, so a
\* World in harmony gains more per tick.
C24_HarmonyBonus ==
  (Ran /\ last.aux.hit = NULL) =>
    PassiveKnowledge = (IF Pre.karma > HARMONY_THRESHOLD THEN 125 ELSE 100)
                         * BASE_KNOWLEDGE_RATE

\* ---- aiming
\* an unpaused TICK that found the player aiming
Aimed == Ran /\ Pre.projection.playerState = "AIMING_DIRECTION"

\* the bearing of node i of the World given, from its player
BearingOf(i) ==
  Atan2(Pre.nodes[i].y - PlayerOf(Pre).y, Pre.nodes[i].x - PlayerOf(Pre).x)

\* the angle between two directions, on the circle
CircleDistance(a, b) ==
  LET m == (a - b) % (2 * PI)
  IN Min2(m, 2 * PI - m)

\* tolerance on angles (1/1000 rad): the arctangent is good to 0.004 rad
AngleSlack == 10

\* the distance of node i's bearing from the aim after its advance of 0.05
SweepDistance(i) ==
  CircleDistance(Pre.projection.aimAngle + AIM_ROTATION_SPEED, BearingOf(i))

\* the scan ran: aim assist on, no selected node in the registry
Scanned ==
  /\ Aimed
  /\ Pre.settings.aimAssist
  /\ NodeIndexById(Pre.nodes, Pre.selectedNodeId) = 0

\* the selected node of the World given is in its registry / is not
SelectionFound ==
  /\ Pre.selectedNodeId # NULL
  /\ NodeIndexById(Pre.nodes, Pre.selectedNodeId) # 0

SelectionDangling ==
  /\ Pre.selectedNodeId # NULL
  /\ NodeIndexById(Pre.nodes, Pre.selectedNodeId) = 0

\* C25: in an AIMING_DIRECTION tick a selected node that is in the registry
\* becomes the target and the aim is set to its bearing from the player; a
\* selectedNodeId that names no node makes the tick do, without error, what it
\* does with nothing selected: the aim-assist scan when aim assist is on, and
\* otherwise no target and the aim advanced by 0.05.  SET_DIRECTION with an
\* aimAssistTargetId that names no node keeps the aim angle.
C25_AimTargetPriority ==
  /\ (Aimed /\ SelectionFound) =>
       /\ world.aimAssistTargetId = Pre.selectedNodeId
       /\ world.projection.aimAngle
            = BearingOf(NodeIndexById(Pre.nodes, Pre.selectedNodeId))
  /\ (/\ last.type = "TICK"
      /\ ~Pre.isPaused
      /\ Pre.projection.playerState = "AIMING_DIRECTION"
      /\ SelectionDangling) =>
       /\ ~last.aux.threw
       /\ world = [TICK([Pre EXCEPT !.selectedNodeId = NULL], last.payload)
                     EXCEPT !.selectedNodeId = Pre.selectedNodeId]
       /\ ~Pre.settings.aimAssist =>
            /\ world.aimAssistTargetId = NULL
            /\ world.projection.aimAngle
                 = Pre.projection.aimAngle + AIM_ROTATION_SPEED
  /\ (/\ last.type = "SET_DIRECTION"
      /\ Pre.projection.playerState = "AIMING_DIRECTION"
      /\ NodeIndexById(Pre.nodes, Pre.aimAssistTargetId) = 0) =>
       /\ ~err
       /\ world.projection.aimAngle = Pre.projection.aimAngle

\* a selection left dangling, and the scan finding a target in its place
C25_Witness ==
  /\ Scanned
  /\ SelectionDangling
  /\ world.aimAssistTargetId # NULL

\* C26 as stated: the aim-assist scan takes a node as target only if its
\* bearing is less than 0.2 rad from the advanced aim angle on the circle, and
\* takes the first such node of the registry that is not the player, whatever
\* value the aim angle has accumulated.
C26_AssistWithinAngle ==
  Scanned =>
    LET ti == NodeIndexById(Pre.nodes, world.aimAssistTargetId)
        near(i) == /\ Pre.nodes[i].type # "player_consciousness"
                   /\ SweepDistance(i) < AIM_ASSIST_ANGLE - AngleSlack
    IN IF world.aimAssistTargetId = NULL
       THEN \A i \in DOMAIN Pre.nodes : ~near(i)
       ELSE /\ ti # 0
            /\ Pre.nodes[ti].type # "player_consciousness"
            /\ SweepDistance(ti) < AIM_ASSIST_ANGLE + AngleSlack
            /\ \A i \in 1..(ti - 1) : ~near(i)

Players(s) == {i \in DOMAIN s.nodes : s.nodes[i].type = "player_consciousness"}

\* C28: in every state reached by TICK, the projection actions, SELECT_NODE,
\* UPDATE_NODE_IMAGE, START_GAME and COMPLETE_LEVEL_TRANSITION (and by the
\* other actions of the game) the registry holds exactly one node of type
\* player_consciousness, and it is the node it was: no destruction outcome and
\* no level transition removes or duplicates the player.
C28_OnePlayer ==
  /\ Cardinality(Players(world)) = 1
  /\ last.type # "LOAD_GAME" => PlayerOf(world).id = PlayerOf(Pre).id

\* a level transition clears a registry of several nodes down to the player
C28_Witness ==
  /\ last.type = "COMPLETE_LEVEL_TRANSITION"
  /\ Len(Pre.nodes) > 1
  /\ world.nodes = <<PlayerOf(Pre)>>

\* the dust particles of the World given that are within reach of its player
DustInReach ==
  {i \in DOMAIN Pre.spaceDust :
     Hypot(PlayerOf(Pre).x - Pre.spaceDust[i].x, PlayerOf(Pre).y - Pre.spaceDust[i].y)
       < PlayerOf(Pre).radius + Pre.spaceDust[i].size + DUST_LEEWAY}

\* C29: once the game has started the World holds 80 dust particles, after
\* every TICK and after COMPLETE_LEVEL_TRANSITION; a PROJECTING tick removes
\* every particle within playerRadius + size + 10 of the player and no other,
\* pays 0.5 knowledge for each and puts one new particle in the place of each,
\* so the count after the tick is the count before it.
C29_DustPopulationFixed ==
  /\ world.gameStarted => Len(world.spaceDust) = DUST_COUNT
  /\ (Ran /\ Pre.projection.playerState = "PROJECTING") =>
       LET gone == {Pre.spaceDust[i].id : i \in DustInReach}
           kept == {Pre.spaceDust[i].id : i \in DOMAIN Pre.spaceDust \ DustInReach}
       IN /\ DustIds(world) \cap gone = {}
          /\ kept \subseteq DustIds(world)
          /\ Cardinality(DustIds(world) \ kept) = Cardinality(DustInReach)
          /\ Cardinality(DustIds(world)) = Len(world.spaceDust)
          /\ Len(world.spaceDust) = Len(Pre.spaceDust)
          /\ last.aux.popped = Cardinality(DustInReach)
          /\ last.aux.hit = NULL =>
               world.knowledge - Pre.knowledge
                 = BASE_KNOWLEDGE_RATE + DUST_REWARD * Cardinality(DustInReach)

\* a flight through dust
C29_Witness ==
  /\ Ran
  /\ Pre.projection.playerState = "PROJECTING"
  /\ DustInReach # {}
  /\ Len(world.spaceDust) = DUST_COUNT

\* ---- effects
\* sequence a is the beginning of sequence b
StartsWith(b, a) == Len(a) <= Len(b) /\ SubSeq(b, 1, Len(a)) = a

\* the effects of the World given that outlive one more tick, one tick older
AgedTexts ==
  SelectSeq([i \in DOMAIN Pre.floatingTexts |->
               [Pre.floatingTexts[i] EXCEPT !.y = @ + Pre.floatingTexts[i].vy,
                                            !.life = @ - 1]],
            LAMBDA f : f.life # 0)
AgedEffects ==
  SelectSeq([i \in DOMAIN Pre.visualEffects |-> [Pre.visualEffects[i] EXCEPT !.life = @ - 1]],
            LAMBDA e : e.life # 0)
AgedTrail ==
  SelectSeq([i \in DOMAIN Pre.projectileTrailParticles |->
               [Pre.projectileTrailParticles[i] EXCEPT !.life = @ - 1]],
            LAMBDA q : q.life # 0)
AgedShockwaves ==
  SelectSeq([i \in DOMAIN Pre.shockwaves |-> [Pre.shockwaves[i] EXCEPT !.life = @ + 5]],
            LAMBDA w : w.life # 100)

\* the longest life an effect is created with (the SUPERNOVA! text)
LongestLife == 80

Lives(effects) == {effects[i].life : i \in DOMAIN effects}

\* C30: an unpaused TICK takes 1 from the life of every floating text, visual
\* effect and trail particle of the World given and drops those, and only
\* those, whose life reaches 0; it adds 0.05 to the life of every shockwave and
\* drops those that reach 1.  So every stored effect has a life above 0 (a
\* shockwave: below 1) and, lives being at most 80 ticks, none stays forever
\* while TICKs go on.
C30_EffectsLedger ==
  /\ Lives(world.floatingTexts) \cup Lives(world.visualEffects)
       \cup Lives(world.projectileTrailParticles) \subseteq 1..LongestLife
  /\ Lives(world.shockwaves) \subseteq 0..99
  /\ Ran =>
       /\ StartsWith(world.floatingTexts, AgedTexts)
       /\ StartsWith(world.visualEffects, AgedEffects)
       /\ StartsWith(world.projectileTrailParticles, AgedTrail)
       /\ StartsWith(world.shockwaves, AgedShockwaves)
       /\ \A i \in DOMAIN world.shockwaves : i > Len(AgedShockwaves) => world.shockwaves[i].life = 5

\* a tick in which a floating text runs out; one in which a trail particle does
C30_Witness ==
  /\ Ran
  /\ \/ 1 \in Lives(Pre.floatingTexts) /\ world.floatingTexts = <<>>
     \/ /\ 1 \in Lives(Pre.projectileTrailParticles)
        /\ Len(world.projectileTrailParticles) <= Len(Pre.projectileTrailParticles)

\* ---- asteroids
Asteroids(s) == {i \in DOMAIN s.nodes : s.nodes[i].type = "asteroid"}
AsteroidIds(s) == {s.nodes[i].id : i \in Asteroids(s)}

\* C31: asteroids are undamageable.  No action changes the currentIntegrity
\* of an asteroid of the registry; no TICK removes an asteroid from the
\* registry or makes a satellite of one; a hit on an asteroid that the
\* collision handler resolves takes the standard-hit branch (first hit or combo).
C31_AsteroidsUndamaged ==
  /\ \A i \in Asteroids(world) :
       \A j \in Asteroids(Pre) :
         world.nodes[i].id = Pre.nodes[j].id =>
           world.nodes[i].currentIntegrity = Pre.nodes[j].currentIntegrity
  /\ last.type = "TICK" => AsteroidIds(Pre) \subseteq AsteroidIds(world)
  /\ \A k \in DOMAIN world.satellites : world.satellites[k].type # "asteroid"
  /\ (Ran /\ last.aux.hit \in AsteroidIds(Pre)) =>
       last.aux.kind \in {"standard", "combo"}

\* the player has bumped into an asteroid
C31_Witness ==
  /\ Ran
  /\ last.aux.hit \in AsteroidIds(Pre)
  /\ last.aux.kind = "standard"
  /\ NodeById(world.nodes, last.aux.hit).integrityCooldown = HIT_COOLDOWN
  /\ NodeById(world.nodes, last.aux.hit).currentIntegrity = 1000

\* ---- persistence
\* the World that SAVE_GAME was given, when the World given to the last call is
\* what SAVE_GAME returned for it
SavedWorld ==
  [Pre EXCEPT !.notifications = SubSeq(@, 1, Len(@) - 1)]

\* the last call loaded the blob that the call before it saved
LoadedWhatWasSaved ==
  /\ last.type = "LOAD_GAME"
  /\ Pre.notifications # <<>>
  /\ Pre.notifications[Len(Pre.notifications)] = "Game Saved!"
  /\ last.payload = StoredBlob(SavedWorld)

\* C32 as stated: LOAD_GAME of the blob that SAVE_GAME stored gives the saved
\* World in every field, the sets as sets, apart from isPaused = false,
\* gameStarted = true and the notification appended; what follows (a hit of the
\* launch that was in progress) goes as it would have from the saved World, so
\* no TICK after it throws.
C32_RoundTrip ==
  /\ LoadedWhatWasSaved =>
       world = [SavedWorld EXCEPT !.isPaused = FALSE, !.gameStarted = TRUE,
                                  !.notifications = Append(@, "Game Loaded!")]
  /\ ~err

\* C33: SAVE_GAME returns the World it was given with one notification
\* appended, 'Game Saved!' when the storage took the blob and 'Error: Could not
\* save game.' when it threw, and nothing else changed; a LOAD_GAME that fails
\* returns the World it was given.
C33_SaveLeavesSimulationAlone ==
  /\ last.type = "SAVE_GAME" =>
       /\ ~err
       /\ world = [Pre EXCEPT !.notifications =
                     Append(@, IF last.payload THEN "Game Saved!"
                               ELSE "Error: Could not save game.")]
  /\ (last.type = "LOAD_GAME" /\ "notifications" \notin DOMAIN last.payload) =>
       /\ ~err
       /\ world = Pre

\* the storage has thrown
C33_Witness ==
  /\ last.type = "SAVE_GAME"
  /\ ~last.payload
  /\ Len(world.notifications) = Len(Pre.notifications) + 1

\* ------------------------------------------------ calls to the service
Settles == svc.pc = "resolved" /\ svc.value \in {"result", "default"}
StopsLoading == svc.visual.mounted => ~svc.visual.isLoading

\* C34: every call to generateNodeImage, generateMilestoneVideo,
\* getGeminiLoreForNode and getGeminiFlavorText eventually resolves with a
\* service result or the default value, whatever the service answers, and a
\* MilestoneVisual awaiting the video then leaves its loading state.
C34_CallsResolve == (svc.pc # "idle") ~> (Settles /\ StopsLoading)

\* the calls for a text or an image do resolve
TextAndImageCallsResolve ==
  (svc.pc # "idle" /\ svc.fn # "generateMilestoneVideo") ~> Settles

\* the waits before the first, second, third and fourth retry, in ms
Backoffs == <<5000, 10000, 20000, 40000>>
RateLimits == {i \in 1..Len(svc.log) : svc.log[i] = "rate_limit"}

\* C36: retryWithBackoff invokes its operation at most 5 times; it invokes
\* it again only after a rate-limit error, having waited 5000 * 2^(k-1) ms
\* before the k-th retry; any other error returns the fallback with no
\* further attempt, and so does the fifth rate-limit failure.
C36_RetryDiscipline ==
  /\ svc.attempts <= 5
  /\ svc.attempts - Len(svc.log) \in {0, 1}
  /\ \A i \in 1..svc.attempts - 1 : svc.log[i] = "rate_limit"
  /\ Len(svc.waits) <= Len(Backoffs)
  /\ svc.waits = SubSeq(Backoffs, 1, Len(svc.waits))
  /\ svc.pc \in {"calling", "polling"} => Len(svc.waits) = Len(svc.log)
  /\ svc.attempts > Len(svc.log) => Len(svc.waits) = svc.attempts - 1
  /\ \A i \in 1..Len(svc.log) :
       svc.log[i] \in {"denied", "error"} =>
         /\ i = Len(svc.log) /\ svc.attempts = i
         /\ svc.pc \in {"prompting", "resolved"}
         /\ svc.pc = "resolved" => svc.value = "default"
  /\ Cardinality(RateLimits) = 5 => svc.pc = "resolved" /\ svc.value = "default"

\* five rate-limit failures in a row: four waits, then the fallback
C36_Witness ==
  /\ Cardinality(RateLimits) = 5
  /\ svc.waits = Backoffs
  /\ svc.pc = "resolved" /\ svc.value = "default"

\* --------------------------------------------------------- whole launches
Projecting == world.projection.playerState = "PROJECTING"
Reforming == world.projection.playerState = "REFORMING"
Idle == world.projection.playerState = "IDLE"

FirstLevelLaunchEnds == (world.zoomLevel = 0 /\ Projecting) ~> Idle

\* on the 390-wide viewport, in the levels after the first, the player in
\* flight never moves at less than 20 units per tick along one axis (a launch
\* ends below 0.8)
RunawayKeepsPace ==
  (world.zoomLevel >= 1 /\ dimensions.width = 390 /\ Projecting) =>
    PlayerPace(world) >= 2000

\* no launch is left because of the number of TICKs followed: one that is
\* left is faster than MaxFlightSpeed, three times the fastest launch
OnlyRunawaysLeft == Projecting => budget.ticks < MaxFlightTicks

\* ------------------------------------------------------------------- lore
LoreResult == last.type = "SET_LORE_RESULT"

\* C37 as stated: a lore result is applied only to the request it answers,
\* so a result that changes the World is the answer to the request the
\* tooltip is waiting for.
C37_AnswersItsRequest == LoreResult /\ world # Pre => last.payload.k = svc.current

\* C37, by node: SET_LORE_RESULT changes the World only when its nodeId
\* equals loreState.nodeId; a result arriving while loreState.nodeId is null
\* (after CLEAR_LORE) or another node leaves the World unchanged; the text
\* shown was written for loreState.nodeId; isLoading is cleared only by a
\* result for that node (or with the tooltip: CLEAR_LORE, a new game).
C37_ResultMatchesNode ==
  /\ LoreResult /\ last.payload.nodeId # Pre.loreState.nodeId => world = Pre
  /\ LoreResult /\ last.payload.nodeId = Pre.loreState.nodeId =>
       world = [Pre EXCEPT !.loreState.text = last.payload, !.loreState.isLoading = FALSE]
  /\ world.loreState.text.nodeId \in {NULL, world.loreState.nodeId}
  /\ Pre.loreState.isLoading /\ ~world.loreState.isLoading /\ last.type # "INIT" =>
       \/ LoreResult /\ last.payload.nodeId = Pre.loreState.nodeId
                     /\ world.loreState.nodeId = Pre.loreState.nodeId
       \/ last.type \in {"CLEAR_LORE", "START_GAME", "LOAD_GAME"} /\ world.loreState.nodeId = NULL

\* the answer for one node arrives while the lore of another is loading
C37_Witness ==
  /\ LoreResult
  /\ Pre.loreState.isLoading
  /\ last.payload.nodeId # Pre.loreState.nodeId
  /\ world.loreState.isLoading

\* the answer to an earlier request is shown for a later request of the same node
C37_EarlierAnswerShown ==
  /\ LoreResult /\ world # Pre
  /\ last.payload.k < svc.current

\* -------------------------------------------------------- aim-assist capture
\* the bearing of node id of World s from its player
BearingIn(s, id) ==
  Atan2(s.nodes[NodeIndexById(s.nodes, id)].y - PlayerOf(s).y,
        s.nodes[NodeIndexById(s.nodes, id)].x - PlayerOf(s).x)

\* how far the aim of World s is from the bearing of its assist target
OffTarget(s) ==
  CircleDistance(s.projection.aimAngle, BearingIn(s, s.aimAssistTargetId))

\* what one more rotation step still leaves within the tolerance
Hold == AIM_ASSIST_ANGLE - AIM_ROTATION_SPEED

\* World s is aiming with aim assist on, nothing selected, and holds a target
\* of its registry with the aim within Hold of its bearing
Captured(s) ==
  /\ s.projection.playerState = "AIMING_DIRECTION"
  /\ s.settings.aimAssist
  /\ s.selectedNodeId = NULL
  /\ NodeIndexById(s.nodes, s.aimAssistTargetId) # 0
  /\ OffTarget(s) <= Hold

Stationary ==
  /\ Len(world.nodes) = Len(Pre.nodes)
  /\ \A i \in DOMAIN Pre.nodes :
       world.nodes[i].x = Pre.nodes[i].x /\ world.nodes[i].y = Pre.nodes[i].y

WallSpark(e) ==
  /\ e.type = "spark" /\ e.life = 10 /\ e.scale = 20
  /\ e.x = PlayerOf(world).x /\ e.y = PlayerOf(world).y

\* C39: whenever a TICK clamps the player at the boundary, the World it
\* returns has in visualEffects a spark (life 10, scale 2) at the player's
\* clamped position, together with screenShake {intensity 3, duration 5}.
C39_WallBounceEffect ==
  (Ran /\ last.aux.walled) =>
    /\ world.screenShake = [intensity |-> 3, duration |-> 5]
    /\ \E i \in DOMAIN world.visualEffects : WallSpark(world.visualEffects[i])

\* the screen shake of the wall bounce is in the World returned
WallBounceShakes ==
  (Ran /\ last.aux.walled) => world.screenShake = [intensity |-> 3, duration |-> 5]

\* no spark of a wall bounce is ever in a World
NoWallSparkKept ==
  \A i \in DOMAIN world.visualEffects : world.visualEffects[i].scale # 20

\* ---------------------------------------------------------------- resources
\* the upgrade of the last PURCHASE_UPGRADE
Bought == CHOOSE u \in Upgrades : u.id = last.payload

Unaffordable(s, u) ==
  \/ u.cost.energy > s.energy
  \/ u.cost.knowledge > s.knowledge
  \/ u.cost.biomass > s.biomass

\* C40: energy, knowledge and biomass are >= 0 in every reachable state; a
\* PURCHASE_UPGRADE whose cost exceeds the balance, or whose upgrade is
\* already unlocked, is rejected as a no-op.
C40_ResourcesNonNegative ==
  /\ world.energy >= 0 /\ world.knowledge >= 0 /\ world.biomass >= 0
  /\ (/\ last.type = "PURCHASE_UPGRADE"
      /\ Unaffordable(Pre, Bought) \/ Bought.id \in Pre.unlockedUpgrades) => world = Pre

\* nothing but PURCHASE_UPGRADE takes a resource away
OnlyPurchasesSpend ==
  (last.type \notin {"INIT", "PURCHASE_UPGRADE", "START_GAME", "LOAD_GAME"}) =>
    /\ world.energy >= Pre.energy
    /\ world.knowledge >= Pre.knowledge
    /\ world.biomass >= Pre.biomass

====
